---- MODULE Spec2Model ----
(***************************************************************************)
(* A model of the callscrape pipeline.                                     *)
(*                                                                         *)
(* Part I   SmartEnricher (src/smart_enrichment.py): the LLM enrichment    *)
(*          orchestrator, its persisted enrichment log, the store rows it  *)
(*          reads and writes, and the oracle it calls.                     *)
(* Part II  OpportunityDatabase (src/database.py): ingest_from_json,       *)
(*          find_duplicates and upsert_opportunity over the store table.   *)
(*                                                                         *)
(* Strings that the code inspects character by character (locations) are   *)
(* sequences of one-character strings; strings it only compares (titles of *)
(* the enricher, deadlines, urls) are opaque values.  Python's None is the *)
(* value None below.                                                       *)
(***************************************************************************)
EXTENDS Integers, Sequences, FiniteSets, TLC

\* ------------------------------------------------------------------ bounds
MaxRows == 2        \* rows of the store in the enrichment specification
MaxRuns == 2        \* process_opportunities runs
MaxRescrapes == 1   \* deadline rewrites by the scrapers between runs

\* ------------------------------------------------------ program constants
BatchLimit == 20    \* needs_enrichment[:20]
FetchLimit == 100   \* query.limit(100)

\* ------------------------------------------------------------ python values
None == <<"<None>">>
Truthy(v) == v # None /\ v # <<>>
Min(a, b) == IF a < b THEN a ELSE b
Range(s) == {s[k] : k \in DOMAIN s}

\* str.lower() on ASCII letters
UpperLetters ==
    <<"A", "B", "C", "D", "E", "F", "G", "H", "I", "J", "K", "L", "M", "N", "O", "P", "Q", "R", "S", "T", "U", "V", "W", "X", "Y", "Z">>
LowerLetters ==
    <<"a", "b", "c", "d", "e", "f", "g", "h", "i", "j", "k", "l", "m", "n", "o", "p", "q", "r", "s", "t", "u", "v", "w", "x", "y", "z">>
LowerChar(c) ==
    IF \E k \in 1..26 : UpperLetters[k] = c
    THEN LowerLetters[CHOOSE k \in 1..26 : UpperLetters[k] = c]
    ELSE c
Lower(s) == [k \in DOMAIN s |-> LowerChar(s[k])]

\* Python's `sub in s` on strings: sub occurs in s as a contiguous substring
Contains(sub, s) ==
    \E k \in 0..(Len(s) - Len(sub)) : SubSeq(s, k + 1, k + Len(sub)) = sub

\* ', '.join(parts)
JoinComma(parts) ==
    IF Len(parts) = 0 THEN <<>>
    ELSE IF Len(parts) = 1 THEN parts[1]
    ELSE parts[1] \o <<",", " ">> \o parts[2]

\* ------------------------------------------------------------ value domains
EmptyStr == <<>>
OnlineStr == <<"O", "n", "l", "i", "n", "e">>
CityStr == <<"R", "o", "m", "e">>
StateStr == <<"N", "Y">>
GoodRaw == <<"R", "o", "m", "e", ",", " ", "N", "Y">>
Deadlines == {"d1", "d2"}

\* the bad-location vocabulary of needs_enrichment, in list order
bad_location_indicators ==
    << <<"e", "m", "a", "i", "l">>, <<"e", "m", "a", "i", "l", ":">>,
       <<"o", "n", "l", "i", "n", "e">>, <<>>, <<"n", "/", "a">>,
       <<"n", "a">>, <<"u", "n", "k", "n", "o", "w", "n">> >>

\* ------------------------------------------------------------------- state
VARIABLES
    store,            \* the opportunities table, in fetch order
    logFile,          \* data/enrichment_log.json
    enrichment_log,   \* self.enrichment_log of the running SmartEnricher
    loaded,           \* the log as load_enrichment_log returned it
    pc,               \* idle | batch | returned | raised | crashed
    opportunities,    \* response.data of the run
    needs_enrichment, \* the run's eligible records, in fetch order
    deadline_changes, \* the run's reported deadline-changed events
    i,                \* 1-based position of the batch loop
    enriched_count,
    runs,             \* runs started; the run number is the timestamp
    rescrapes,
    oracle_calls,     \* composite key -> oracle invocations so far
    submitted,        \* row ids submitted to the oracle in this run
    accepted,         \* composite keys whose result was accepted in this run
    failed,           \* batch positions whose step failed in this run
    last_step         \* what the last batch step saw and did

evars == <<store, logFile, enrichment_log, loaded, pc, opportunities,
           needs_enrichment, deadline_changes, i, enriched_count, runs,
           rescrapes, oracle_calls, submitted, accepted, failed, last_step>>


\* -------------------------------------------------------- SmartEnricher
\* opp_id = f"{source_platform}:{title}"; platform names hold no ':' so the
\* string is determined by, and determines, the pair
OppId(opp) == <<opp.source_platform, opp.title>>

EmptyLog ==
    [enriched_ids |-> <<>>, previous_deadlines |-> <<>>,
     has_previous_deadlines |-> FALSE, last_run |-> 0]

load_enrichment_log == logFile

\* a needs_enrichment that looks at the parsed city and state only
NeedsEnrichmentUnparsed(log, opp) ==
    ~Truthy(opp.location_city) /\ ~Truthy(opp.location_state) /\ Truthy(opp.location_raw)

NeedsEnrichmentNoMemo(log, opp) ==
    LET location == Lower(IF Truthy(opp.location_raw) THEN opp.location_raw ELSE <<>>)
    IN  \/ \E k \in DOMAIN bad_location_indicators :
              Contains(bad_location_indicators[k], location)
        \/ (~Truthy(opp.location_city) /\ ~Truthy(opp.location_state)
            /\ Truthy(opp.location_raw))

needs_enrichment_ignoring_log(log, opp) == NeedsEnrichmentNoMemo(log, opp)

needs_enrichment_of(log, opp) ==
    /\ OppId(opp) \notin DOMAIN log.enriched_ids
    /\ NeedsEnrichmentNoMemo(log, opp)

\* the scan of lines 196-215: the deadline-changed events, in fetch order
RECURSIVE DeadlineChanges(_, _)
DeadlineChanges(opps, log) ==
    IF opps = <<>> THEN <<>>
    ELSE LET opp == Head(opps)
             opp_id == OppId(opp)
             prev == IF log.has_previous_deadlines THEN log.previous_deadlines ELSE <<>>
             rest == DeadlineChanges(Tail(opps), log)
         IN  IF opp_id \in DOMAIN prev /\ prev[opp_id] # opp.deadline_raw
             THEN <<[id |-> opp_id, title |-> opp.title,
                     old |-> prev[opp_id], new |-> opp.deadline_raw]>> \o rest
             ELSE rest

\* a run that leaves previous_deadlines as it was loaded
TrackDeadlinesNone(prev, opps) == prev

\* lines 293-295: previous_deadlines[opp_id] = deadline_raw, in fetch order
RECURSIVE TrackDeadlines(_, _)
TrackDeadlines(prev, opps) ==
    IF opps = <<>> THEN prev
    ELSE TrackDeadlines((OppId(Head(opps)) :> Head(opps).deadline_raw) @@ prev,
                        Tail(opps))

\* needs_enrichment[:20]
Batch == SubSeq(needs_enrichment, 1, Min(Len(needs_enrichment), BatchLimit))

\* what the oracle call can produce: an exception, the literal null, text
\* json.loads rejects, a JSON object, or JSON that is no object ("scalar")
OracleObjects ==
    {o \in [kind : {"object"}, confidence : {"high", "medium", "low", "none"},
            is_online : BOOLEAN, city : {None, CityStr}, state : {None, StateStr}] :
        \* an online answer names no place or a whole one; an answer the
        \* code rejects is drawn in two shapes only
        /\ o.is_online => (o.city = None <=> o.state = None)
        /\ o.confidence \in {"low", "none"} => (o.city = None <=> o.state = None)
        /\ o.confidence \in {"low", "none"} => (o.is_online <=> o.city = None)}
OracleNonObjects ==
    {[kind |-> k, confidence |-> "none", is_online |-> FALSE,
      city |-> None, state |-> None] : k \in {"error", "null", "garbage", "scalar"}}
OracleResponses == OracleObjects \cup OracleNonObjects
\* the answers the code rejects without an exception: the literal null and
\* a low-confidence object
RejectingResponses ==
    {r \in OracleResponses :
        r.kind = "null" \/ (r.kind = "object" /\ r.confidence = "low" /\ r.is_online)}

\* (the function's None result is the record NoResult)
NoResult == [kind |-> "none"]
OracleInvoked(opp) == ~(Truthy(opp.location_city) /\ Truthy(opp.location_state))
extract_location_with_haiku(opp, resp) ==
    IF ~OracleInvoked(opp) THEN NoResult
    ELSE IF resp.kind \in {"error", "null", "garbage"} THEN NoResult
    ELSE resp

IsAcceptedAnyConfidence(location_data) ==
    /\ location_data.kind = "object"
    /\ location_data.confidence \in {"high", "medium", "low"}

\* line 244: location_data and location_data.get('confidence') in ['high', 'medium']
IsAccepted(location_data) ==
    /\ location_data.kind = "object"
    /\ location_data.confidence \in {"high", "medium"}

\* lines 246-260: update_data
UpdateData(location_data) ==
    IF location_data.is_online THEN ("location_raw" :> OnlineStr)
    ELSE LET city == IF Truthy(location_data.city) THEN <<location_data.city>> ELSE <<>>
             state == IF Truthy(location_data.state) THEN <<location_data.state>> ELSE <<>>
             parts == city \o state
             c == IF city # <<>> THEN ("location_city" :> location_data.city) ELSE <<>>
             s == IF state # <<>> THEN ("location_state" :> location_data.state) ELSE <<>>
             r == IF parts # <<>> THEN ("location_raw" :> JoinComma(parts)) ELSE <<>>
         IN  c @@ s @@ r

\* supabase.table('opportunities').update(update_data).eq('id', id)
StoreUpdate(rows, id, data) ==
    [k \in DOMAIN rows |->
        IF rows[k].id = id
        THEN [f \in DOMAIN rows[k] |-> IF f \in DOMAIN data THEN data[f] ELSE rows[k][f]]
        ELSE rows[k]]

\* enrichment_log['enriched_ids'][opp_id] = datetime.now().isoformat()
Stamp(log, opp_id, now) ==
    [log EXCEPT !.enriched_ids = (opp_id :> now) @@ log.enriched_ids]

RaisesUnguarded(location_data) == location_data.kind \in {"scalar", "none"}

\* line 244 raises AttributeError (.get on a str, a number, a list) when the
\* oracle's text parsed to truthy JSON that is no object; nothing catches it
Raises(location_data) == location_data.kind = "scalar"

NoStep == [pos |-> 0]
Idle == pc \in {"idle", "returned", "raised", "crashed"}

\* SmartEnricher() and lines 176-220 of process_opportunities: load the log,
\* fetch, and scan every fetched record.
StartRun ==
    /\ Idle
    /\ runs < MaxRuns
    /\ LET log == load_enrichment_log
           fetched == SubSeq(store, 1, Min(Len(store), FetchLimit))
       IN  /\ enrichment_log' = log
           /\ loaded' = log
           /\ opportunities' = fetched
           /\ needs_enrichment' = SelectSeq(fetched, LAMBDA o : needs_enrichment_of(log, o))
           /\ deadline_changes' = DeadlineChanges(fetched, log)
    /\ pc' = "batch"
    /\ i' = 1
    /\ enriched_count' = 0
    /\ runs' = runs + 1
    /\ submitted' = {}
    /\ accepted' = {}
    /\ failed' = {}
    /\ last_step' = NoStep
    /\ UNCHANGED <<store, logFile, rescrapes, oracle_calls>>

\* One iteration of the batch loop, lines 234-280, with the oracle answering
\* one of `responses` and the store update succeeding or raising.
ProcessOne(responses) ==
    /\ pc = "batch"
    /\ i <= Len(Batch)
    /\ \E resp \in responses :
        LET opp == Batch[i]
            opp_id == OppId(opp)
            called == OracleInvoked(opp)
            location_data == extract_location_with_haiku(opp, resp)
            crash == Raises(location_data)
            ok == IsAccepted(location_data)
            update_data == IF ok THEN UpdateData(location_data) ELSE <<>>
            writes == ok /\ DOMAIN update_data # {}
        IN  \E store_ok \in IF writes THEN BOOLEAN ELSE {TRUE} :
            LET written == writes /\ store_ok
                stamped == (~ok) \/ written
            IN
            /\ oracle_calls' = IF called
                               THEN [oracle_calls EXCEPT ![opp_id] = @ + 1]
                               ELSE oracle_calls
            /\ submitted' = IF called THEN submitted \cup {opp.id} ELSE submitted
            /\ last_step' = [pos |-> i, id |-> opp.id, key |-> opp_id, called |-> called,
                             resp |-> resp, result |-> location_data,
                             store_ok |-> store_ok, before |-> store,
                             count_before |-> enriched_count]
            /\ IF crash
               THEN /\ pc' = "crashed"
                    /\ UNCHANGED <<store, enrichment_log, i, enriched_count, accepted, failed>>
               ELSE /\ pc' = pc
                    /\ i' = i + 1
                    /\ store' = IF written THEN StoreUpdate(store, opp.id, update_data)
                                ELSE store
                    /\ enrichment_log' = IF stamped THEN Stamp(enrichment_log, opp_id, runs)
                                         ELSE enrichment_log
                    /\ enriched_count' = IF written THEN enriched_count + 1
                                         ELSE enriched_count
                    /\ accepted' = IF ok THEN accepted \cup {opp_id} ELSE accepted
                    /\ failed' = IF (called /\ resp.kind \in {"error", "garbage"})
                                    \/ (writes /\ ~store_ok)
                                 THEN failed \cup {i} ELSE failed
    /\ UNCHANGED <<logFile, loaded, opportunities, needs_enrichment,
                   deadline_changes, runs, rescrapes>>

\* Lines 286-308: last_run, previous_deadlines, save, summary.  The summary
\* reads enriched_count, which line 233 binds only when the batch is not empty.
FinishRun ==
    /\ pc = "batch"
    /\ i > Len(Batch)
    /\ LET prev == IF enrichment_log.has_previous_deadlines
                   THEN enrichment_log.previous_deadlines ELSE <<>>
           log == [enrichment_log EXCEPT
                     !.last_run = runs,
                     !.has_previous_deadlines = TRUE,
                     !.previous_deadlines = TrackDeadlines(prev, opportunities)]
       IN  /\ enrichment_log' = log
           /\ logFile' = log
    /\ pc' = IF needs_enrichment = <<>> THEN "raised" ELSE "returned"
    /\ last_step' = NoStep
    /\ UNCHANGED <<store, loaded, opportunities, needs_enrichment, deadline_changes,
                   i, enriched_count, runs, rescrapes, oracle_calls, submitted,
                   accepted, failed>>

\* Between two runs the scrapers observe a record again and the store's
\* update overwrites its deadline_raw.
Rescrape ==
    /\ Idle
    /\ 0 < runs /\ runs < MaxRuns
    /\ rescrapes < MaxRescrapes
    /\ \E k \in DOMAIN store, d \in Deadlines :
          /\ d # store[k].deadline_raw
          /\ store' = [store EXCEPT ![k].deadline_raw = d]
    /\ rescrapes' = rescrapes + 1
    /\ last_step' = NoStep
    /\ UNCHANGED <<logFile, enrichment_log, loaded, pc, opportunities,
                   needs_enrichment, deadline_changes, i, enriched_count, runs,
                   oracle_calls, submitted, accepted, failed>>


\* ===================================================== OpportunityDatabase
\* Text fields of Part II are sequences of words (a string split on
\* whitespace); '' is <<>> and None is None.
VARIABLES
    table,          \* the opportunities table of the store, in row order
    client,         \* self.use_supabase and self.client: a connected store
    ipc,            \* idle | loop: position of ingest_from_json
    queue,          \* the records of the JSON file not yet processed
    existing,       \* the in-memory list used for deduplication
    results,        \* the run's counters
    clock,          \* datetime.now(): upsert calls so far
    ingests,        \* ingest_from_json runs started
    ok_upserts,     \* id -> upsert calls that returned inserted or updated
    first_time,     \* id -> clock of the upsert that inserted the row
    last_upsert     \* what the last upsert_opportunity call saw and did

dvars == <<table, client, ipc, queue, existing, results, clock, ingests,
           ok_upserts, first_time, last_upsert>>

MaxIngests == 2     \* ingest_from_json runs
MaxFile == 2        \* records in one JSON file

LowerWord(w) ==
    CASE w = "Art" -> "art" [] w = "Show" -> "show" [] w = "Guild" -> "guild"
      [] w = "Solo" -> "solo" [] OTHER -> w
LowerText(t) == [k \in DOMAIN t |-> LowerWord(t[k])]

\* dict.get(key): None when the key is absent
Get(d, f) == IF f \in DOMAIN d THEN d[f] ELSE None
\* d[key] = value
Put(d, f, v) == (f :> v) @@ d

\* uuid5(namespace, f"{source}:{unique_str}"): one id per (source, unique_str)
generate_deterministic_id(source, unique_str) == <<source, unique_str>>

\* the first non-empty of url, id, title
UniqueStr(raw_data) ==
    IF Truthy(raw_data.url) THEN raw_data.url
    ELSE IF Truthy(raw_data.id) THEN raw_data.id
    ELSE raw_data.title

\* normalize_opportunity, on the columns the model carries (the other text
\* columns are built and stored the way description and email are)
normalize_opportunity(raw_data) ==
    [id |-> generate_deterministic_id(raw_data.source_platform, UniqueStr(raw_data)),
     title |-> raw_data.title,
     organization |-> IF Truthy(raw_data.organization) THEN raw_data.organization ELSE None,
     url |-> raw_data.url,
     source_platform |-> raw_data.source_platform,
     deadline_raw |-> raw_data.deadline,
     location_raw |-> IF Truthy(raw_data.location) THEN raw_data.location ELSE <<>>,
     description |-> IF Truthy(raw_data.description) THEN raw_data.description ELSE <<>>,
     email |-> raw_data.email]

\* the comparison with >= in place of >
SimilarityAtLeastThreshold(s1, s2) ==
    LET set1 == Range(s1)
        set2 == Range(s2)
    IN  /\ s1 # <<>> /\ s2 # <<>>
        /\ 20 * Cardinality(set1 \cap set2) >= 17 * Cardinality(set1 \cup set2)

\* _string_similarity(s1, s2) > 0.85, on the Jaccard index |s1 & s2| / |s1 | s2|
\* of the word sets: n/d > 0.85 iff 20 n > 17 d
SimilarityAboveThreshold(s1, s2) ==
    LET set1 == Range(s1)
        set2 == Range(s2)
    IN  /\ s1 # <<>> /\ s2 # <<>>
        /\ 20 * Cardinality(set1 \cap set2) > 17 * Cardinality(set1 \cup set2)

IsDuplicate(opportunity, existing_opp) ==
    LET title_lower == LowerText(opportunity.title)
        org == Get(opportunity, "organization")
        org_lower == LowerText(IF Truthy(org) THEN org ELSE <<>>)
        existing_title == LowerText(existing_opp.title)
        existing_org == Get(existing_opp, "organization")
    IN  \/ existing_opp.url = opportunity.url
        \/ title_lower = existing_title
        \/ /\ org_lower # <<>>
           /\ org_lower = LowerText(IF Truthy(existing_org) THEN existing_org ELSE <<>>)
           /\ SimilarityAboveThreshold(title_lower, existing_title)

\* find_duplicates: the loop over `existing_list`, appending each duplicate
\* once; the positions in `existing_list` of the records returned, in order
find_duplicates(opportunity, existing_list) ==
    LET RECURSIVE Loop(_, _)
        Loop(k, duplicates) ==
            IF k > Len(existing_list) THEN duplicates
            ELSE Loop(k + 1, IF IsDuplicate(opportunity, existing_list[k])
                             THEN Append(duplicates, k) ELSE duplicates)
    IN  Loop(1, <<>>)

\* lines 243-248: the dict upsert_opportunity sends when the row exists
UpdatedOppResetCount(opportunity, row) ==
    LET o1 == Put(Put(opportunity, "times_seen", 1), "first_seen", Get(row, "first_seen"))
    IN  IF ~Truthy(Get(o1, "organization")) /\ Truthy(Get(row, "organization"))
        THEN Put(o1, "organization", row.organization) ELSE o1

UpdatedOppNoPreserve(opportunity, row) ==
    Put(Put(opportunity, "times_seen", row.times_seen + 1), "first_seen", Get(row, "first_seen"))

UpdatedOpp(opportunity, row) ==
    LET o1 == Put(Put(opportunity, "times_seen", row.times_seen + 1),
                  "first_seen", Get(row, "first_seen"))
    IN  IF ~Truthy(Get(o1, "organization")) /\ Truthy(Get(row, "organization"))
        THEN Put(o1, "organization", row.organization) ELSE o1

\* lines 255-256: the dict upsert_opportunity sends when the row is new
InsertedOpp(opportunity, now) ==
    Put(Put(opportunity, "first_seen", now), "times_seen", 1)

\* table.update(opportunity).eq('id', id): the sent columns overwrite the row's
TableUpdate(t, opportunity) ==
    [k \in DOMAIN t |->
        IF t[k].id = opportunity.id
        THEN [f \in DOMAIN t[k] \cup DOMAIN opportunity |->
                 IF f \in DOMAIN opportunity THEN opportunity[f] ELSE t[k][f]]
        ELSE t[k]]

\* the try block of upsert_opportunity (lines 234-263) with the store
\* answering `outcome` (ok, or the select raising, or the insert/update
\* raising): the status, the dict as the call leaves it, and the table
UpsertConnected(opportunity, t, outcome, now) ==
    IF outcome = "select_raises"
    THEN [status |-> "error", opp |-> opportunity, table |-> t]
    ELSE LET found == {k \in DOMAIN t : t[k].id = opportunity.id}
         IN  IF found # {}
             THEN LET row == t[CHOOSE k \in found : \A j \in found : k <= j]
                      sent == UpdatedOpp(opportunity, row)
                  IN  IF outcome = "write_raises"
                      THEN [status |-> "error", opp |-> sent, table |-> t]
                      ELSE [status |-> "updated", opp |-> sent,
                            table |-> TableUpdate(t, sent)]
             ELSE LET sent == InsertedOpp(opportunity, now)
                  IN  IF outcome = "write_raises"
                      THEN [status |-> "error", opp |-> sent, table |-> t]
                      ELSE [status |-> "inserted", opp |-> sent,
                            table |-> Append(t, sent)]

\* an upsert that goes to the store without looking at the connection
upsert_opportunity_unguarded(opportunity, t, connected, outcome, now) ==
    UpsertConnected(opportunity, t, outcome, now)

\* upsert_opportunity(opportunity): skipped without a connection (lines
\* 231-232), the try block otherwise
upsert_opportunity(opportunity, t, connected, outcome, now) ==
    IF ~connected
    THEN [status |-> "skipped", opp |-> opportunity, table |-> t]
    ELSE UpsertConnected(opportunity, t, outcome, now)

\* counters that leave an upsert that ended in error uncounted
CountResultDroppingErrors(res, status) ==
    CASE status = "inserted" -> [res EXCEPT !.inserted = @ + 1]
      [] status = "updated" -> [res EXCEPT !.updated = @ + 1]
      [] status = "error" -> res
      [] OTHER -> [res EXCEPT !.skipped = @ + 1]

\* lines 317-325: the counter the status of an upsert adds to
CountResult(res, status) ==
    CASE status = "inserted" -> [res EXCEPT !.inserted = @ + 1]
      [] status = "updated" -> [res EXCEPT !.updated = @ + 1]
      [] status = "error" -> [res EXCEPT !.errors = @ + 1]
      [] OTHER -> [res EXCEPT !.skipped = @ + 1]

\* select('id, title, organization, url'): the columns the dedup list holds
ExistingColumns == {"id", "title", "organization", "url"}
SelectExisting(t) == [k \in DOMAIN t |-> [f \in ExistingColumns |-> t[k][f]]]

\* the raw records a JSON file can hold
Raw(platform, url, title, org, rest) ==
    [source_platform |-> platform, url |-> url, id |-> <<>>, title |-> title,
     organization |-> org, deadline |-> rest, location |-> rest,
     description |-> rest, email |-> rest]
RawRecords ==
    {Raw("cafe", <<"u1">>, <<"Art", "Show">>, <<"Guild">>, <<"x">>),
     Raw("cafe", <<"u1">>, <<"Art", "Show">>, <<>>, <<>>),
     Raw("artcall", <<"u2">>, <<"art", "show">>, <<>>, <<"y">>),
     Raw("artcall", <<"u3">>, <<"Show", "Art">>, <<"guild">>, <<>>),
     Raw("cafe", <<>>, <<"Solo">>, <<>>, <<"x">>)}
Files == UNION {[1..n -> RawRecords] : n \in 1..MaxFile}
Ids == {normalize_opportunity(r).id : r \in RawRecords}

\* a merge that would fill the empty fields of the existing record
MergeDuplicateFilling(first, normalized) ==
    LET alts == IF "alternate_urls" \in DOMAIN first THEN first.alternate_urls ELSE <<>>
        text == {"description", "location_raw", "deadline_raw", "email"}
        filled == [f \in DOMAIN first \cup text |->
                      IF f \in text /\ (f \notin DOMAIN first \/ first[f] = <<>>)
                      THEN normalized[f] ELSE first[f]]
    IN  Put(filled, "alternate_urls", Append(alts, normalized.url))

\* lines 309-312: the existing record, with the incoming url appended to its
\* alternate_urls, is used in place of the incoming record
MergeDuplicate(first, normalized) ==
    LET alts == IF "alternate_urls" \in DOMAIN first THEN first.alternate_urls ELSE <<>>
    IN  Put(first, "alternate_urls", Append(alts, normalized.url))

NoUpsert == [status |-> "none"]
NoResults == [total |-> 0, inserted |-> 0, updated |-> 0, errors |-> 0, skipped |-> 0]

\* ingest_from_json, lines 267-297: read the file, fetch the dedup list
IngestStart ==
    /\ ipc = "idle"
    /\ ingests < MaxIngests
    /\ \E file \in Files, fetch_ok \in BOOLEAN :
          /\ queue' = file
          /\ results' = [NoResults EXCEPT !.total = Len(file)]
          /\ existing' = IF client /\ fetch_ok THEN SelectExisting(table) ELSE <<>>
    /\ ipc' = "loop"
    /\ ingests' = ingests + 1
    /\ UNCHANGED <<table, client, clock, ok_upserts, first_time, last_upsert>>

\* one iteration of the loop of lines 299-325
IngestOne ==
    /\ ipc = "loop"
    /\ queue # <<>>
    /\ \E outcome \in {"ok", "select_raises", "write_raises"} :
        LET normalized == normalize_opportunity(Head(queue))
            duplicates == find_duplicates(normalized, existing)
            \* a dict without the key gives None, which no platform name equals
            cross == /\ duplicates # <<>>
                     /\ \/ "source_platform" \notin DOMAIN existing[duplicates[1]]
                        \/ normalized.source_platform
                               # existing[duplicates[1]].source_platform
            first == IF cross THEN existing[duplicates[1]] ELSE normalized
            opportunity == IF cross THEN MergeDuplicate(first, normalized)
                           ELSE normalized
            before == {r \in Range(table) : r.id = opportunity.id}
            result == upsert_opportunity(opportunity, table, client, outcome, clock + 1)
            \* the list element and the upserted dict are one object
            shared == IF cross THEN [existing EXCEPT ![duplicates[1]] = result.opp]
                      ELSE existing
        IN  /\ table' = result.table
            /\ existing' = IF result.status = "inserted"
                           THEN Append(shared, result.opp) ELSE shared
            /\ results' = CountResult(results, result.status)
            /\ ok_upserts' = IF result.status \in {"inserted", "updated"}
                             THEN [ok_upserts EXCEPT ![opportunity.id] = @ + 1]
                             ELSE ok_upserts
            /\ first_time' = IF result.status = "inserted"
                             THEN [first_time EXCEPT ![opportunity.id] = clock + 1]
                             ELSE first_time
            /\ last_upsert' = [status |-> result.status, cross |-> cross,
                               incoming |-> normalized, opportunity |-> opportunity,
                               before |-> before, rows_before |-> Len(table),
                               first |-> first, results_before |-> results,
                               run |-> ingests, left |-> Len(queue) - 1,
                               raw |-> Head(queue)]
    /\ queue' = Tail(queue)
    /\ clock' = clock + 1
    /\ UNCHANGED <<client, ipc, ingests>>

\* lines 327-328: the loop is over and the counters are returned
IngestEnd ==
    /\ ipc = "loop"
    /\ queue = <<>>
    /\ ipc' = "idle"
    /\ UNCHANGED <<table, client, queue, existing, results, clock, ingests,
                   ok_upserts, first_time, last_upsert>>

InitIngest(connected) ==
    /\ table = <<>>
    /\ client \in connected
    /\ ipc = "idle"
    /\ queue = <<>>
    /\ existing = <<>>
    /\ results = NoResults
    /\ clock = 0
    /\ ingests = 0
    /\ ok_upserts = [id \in Ids |-> 0]
    /\ first_time = [id \in Ids |-> 0]
    /\ last_upsert = NoUpsert

\* ------------------------------------------------ the enrichment universe
Platforms == {"cafe", "artcall"}
Titles == {1, 2}
Keys == Platforms \X Titles
Locations ==
    {[location_raw |-> EmptyStr, location_city |-> None, location_state |-> None],
     [location_raw |-> GoodRaw, location_city |-> CityStr, location_state |-> StateStr]}

Row(id, key, loc, deadline) ==
    [id |-> id, source_platform |-> key[1], title |-> key[2],
     location_raw |-> loc.location_raw, location_city |-> loc.location_city,
     location_state |-> loc.location_state, deadline_raw |-> deadline]

InitStores ==
    UNION {{[k \in 1..n |-> Row(k, ks[k], ls[k], "d1")] :
               ks \in [1..n -> {<<"cafe", 1>>, <<"cafe", 2>>, <<"artcall", 1>>}],
               ls \in [1..n -> Locations]} : n \in 0..MaxRows}

InitRun(keys) ==
    /\ logFile = EmptyLog
    /\ enrichment_log = EmptyLog
    /\ loaded = EmptyLog
    /\ pc = "idle"
    /\ opportunities = <<>>
    /\ needs_enrichment = <<>>
    /\ deadline_changes = <<>>
    /\ i = 1
    /\ enriched_count = 0
    /\ runs = 0
    /\ rescrapes = 0
    /\ oracle_calls = [k \in keys |-> 0]
    /\ submitted = {}
    /\ accepted = {}
    /\ failed = {}
    /\ last_step = NoStep

\* a single call of one of the pure functions: its arguments, whether it has
\* returned, and what it returned
VARIABLES fn_args, fn_done, fn_result
fvars == <<fn_args, fn_done, fn_result>>
NoCall == [fn |-> "none"]
InitNoCall == fn_args = NoCall /\ fn_done = FALSE /\ fn_result = NoCall

vars == <<evars, dvars, fvars>>

Init ==
    /\ store \in InitStores
    /\ InitRun(Keys)
    /\ InitIngest({TRUE})
    /\ InitNoCall

Next ==
    \/ (StartRun /\ UNCHANGED <<dvars, fvars>>)
    \/ (ProcessOne(OracleResponses) /\ UNCHANGED <<dvars, fvars>>)
    \/ (FinishRun /\ UNCHANGED <<dvars, fvars>>)
    \/ (Rescrape /\ UNCHANGED <<dvars, fvars>>)

Spec == Init /\ [][Next]_vars

\* the 21-row store of the batch specification: twenty distinct keys, and a
\* last row whose key is new, the first row's or the twentieth row's
BatchTitles == 1..(BatchLimit + 1)
InitBatch ==
    /\ store \in {[k \in 1..(BatchLimit + 1) |->
                      Row(k, <<"cafe", IF k <= BatchLimit THEN k ELSE t>>,
                          [location_raw |-> EmptyStr, location_city |-> None,
                           location_state |-> None], "d1")] :
                  t \in {1, BatchLimit, BatchLimit + 1}}
    /\ InitRun({"cafe"} \X BatchTitles)
    /\ InitIngest({TRUE})
    /\ InitNoCall

NextBatch ==
    \/ (StartRun /\ UNCHANGED <<dvars, fvars>>)
    \/ (ProcessOne(RejectingResponses) /\ UNCHANGED <<dvars, fvars>>)
    \/ (FinishRun /\ UNCHANGED <<dvars, fvars>>)

\* the ingestion specification: a fresh store, connected or not
InitDb ==
    /\ store = <<>>
    /\ InitRun({})
    /\ InitIngest(BOOLEAN)
    /\ InitNoCall

NextDb ==
    \/ (IngestStart /\ UNCHANGED <<evars, fvars>>)
    \/ (IngestOne /\ UNCHANGED <<evars, fvars>>)
    \/ (IngestEnd /\ UNCHANGED <<evars, fvars>>)

SpecDb == InitDb /\ [][NextDb]_vars

SpecBatch == InitBatch /\ [][NextBatch]_vars

\* ------------------------------------------------ find_duplicates alone
MaxExisting == 2    \* records in the dedup list of a find_duplicates call

Words20 ==
    <<"w1", "w2", "w3", "w4", "w5", "w6", "w7", "w8", "w9", "w10",
      "w11", "w12", "w13", "w14", "w15", "w16", "w17", "w18", "w19", "w20">>
Words17 == SubSeq(Words20, 1, 17)
Words18 == SubSeq(Words20, 1, 18)

\* the candidate, as normalize_opportunity leaves title, organization and url
DupCandidates ==
    [title : {<<"art", "show">>, <<"Show", "Art">>, Words20, <<"Solo">>, <<>>},
     organization : {None, <<"Guild">>, <<"Other">>},
     url : {<<"u1">>, <<"u2">>, <<>>}]
\* the records of the dedup list
DupExisting ==
    [title : {<<"Art", "Show">>, Words17, Words18, <<>>},
     organization : {None, <<"guild">>},
     url : {<<"u1">>, <<>>}]

InitDup ==
    /\ store = <<>>
    /\ InitRun({})
    /\ InitIngest({TRUE})
    /\ fn_args \in [fn : {"find_duplicates"}, opportunity : DupCandidates,
                     existing : UNION {[1..n -> DupExisting] : n \in 0..MaxExisting}]
    /\ fn_done = FALSE
    /\ fn_result = NoCall

CallFindDuplicates ==
    /\ fn_args.fn = "find_duplicates"
    /\ ~fn_done
    /\ fn_result' = find_duplicates(fn_args.opportunity, fn_args.existing)
    /\ fn_done' = TRUE
    /\ UNCHANGED <<fn_args, evars, dvars>>

NextDup == CallFindDuplicates

SpecDup == InitDup /\ [][NextDup]_vars

\* ------------------------------------------------------------------------
\* Part III  the fee normalizer (src/utils/fee_normalizer.py); fee strings
\*           are sequences of one-character strings
\* ------------------------------------------------------------------------
Whitespace == {" ", "\t", "\n", "\r"}
DigitChars == <<"0", "1", "2", "3", "4", "5", "6", "7", "8", "9">>
IsDigit(c) == \E k \in 1..10 : DigitChars[k] = c
DigitValue(c) == (CHOOSE k \in 1..10 : DigitChars[k] = c) - 1

\* str.strip()
RECURSIVE LStrip(_)
LStrip(s) == IF s # <<>> /\ Head(s) \in Whitespace THEN LStrip(Tail(s)) ELSE s
RECURSIVE RStrip(_)
RStrip(s) ==
    IF s # <<>> /\ s[Len(s)] \in Whitespace THEN RStrip(SubSeq(s, 1, Len(s) - 1)) ELSE s
Strip(s) == RStrip(LStrip(s))

\* str.split(sep)
RECURSIVE SplitOn(_, _)
SplitOn(s, sep) ==
    IF ~Contains(sep, s) THEN <<s>>
    ELSE LET k == CHOOSE j \in 0..(Len(s) - Len(sep)) :
                      /\ SubSeq(s, j + 1, j + Len(sep)) = sep
                      /\ \A h \in 0..(j - 1) : SubSeq(s, h + 1, h + Len(sep)) # sep
         IN  <<SubSeq(s, 1, k)>> \o SplitOn(SubSeq(s, k + Len(sep) + 1, Len(s)), sep)

\* int(digits) and str(n) for n >= 0
RECURSIVE DigitsToInt(_)
DigitsToInt(d) ==
    IF d = <<>> THEN 0 ELSE 10 * DigitsToInt(SubSeq(d, 1, Len(d) - 1)) + DigitValue(d[Len(d)])
RECURSIVE IntToStr(_)
IntToStr(n) ==
    IF n < 10 THEN <<DigitChars[n + 1]>> ELSE IntToStr(n \div 10) \o <<DigitChars[(n % 10) + 1]>>
RECURSIVE Pow10(_)
Pow10(n) == IF n = 0 THEN 1 ELSE 10 * Pow10(n - 1)

\* float(numeric_str): ValueError unless the string is digits with at most
\* one point and at least one digit; the value is num / 10^scale
ParseFloat(numeric_str) ==
    LET points == {k \in DOMAIN numeric_str : numeric_str[k] = "."}
        digits == SelectSeq(numeric_str, IsDigit)
    IN  IF Cardinality(points) > 1 \/ digits = <<>>
        THEN [ok |-> FALSE]
        ELSE [ok |-> TRUE, num |-> DigitsToInt(digits),
              scale |-> IF points = {} THEN 0
                        ELSE Len(numeric_str) - (CHOOSE k \in points : TRUE)]

\* the amounts, in cents, for which fee_value * 100 is not a whole number in
\* double arithmetic (1.10 * 100 is 110.00000000000001); every other amount
\* of at most two decimals the model uses gives a whole number
InexactCents == {110, 1999, 2010}

\* the amounts of more than two decimals, <<digits, decimals>>, that lie
\* halfway between two cent values and whose double f"{fee_value:.2f}" rounds
\* up (22.515 gives 22.52); the model meets no tie that rounds down
TiesRoundedUp == {<<22515, 3>>, <<45515, 3>>}

\* f"${fee_value:.2f}" for a value given in cents
FormatTwoDecimals(cents) ==
    <<"$">> \o IntToStr(cents \div 100) \o <<".">>
        \o <<DigitChars[((cents \div 10) % 10) + 1], DigitChars[(cents % 10) + 1]>>

\* str.rstrip(c)
RECURSIVE RStripChar(_, _)
RStripChar(s, c) ==
    IF s # <<>> /\ s[Len(s)] = c THEN RStripChar(SubSeq(s, 1, Len(s) - 1), c) ELSE s

FreeStr == <<"F", "r", "e", "e">>

normalize_single_fee(fee_str0) ==
    IF fee_str0 = <<>> THEN <<>>
    ELSE LET fee_str == Strip(fee_str0)
             numeric_str == SelectSeq(fee_str, LAMBDA c : IsDigit(c) \/ c = ".")
             parsed == ParseFloat(numeric_str)
         IN  IF numeric_str = <<>> THEN fee_str
             ELSE IF ~parsed.ok THEN fee_str
             ELSE IF parsed.num = 0 THEN FreeStr
             ELSE IF parsed.num % Pow10(parsed.scale) = 0
             THEN <<"$">> \o IntToStr(parsed.num \div Pow10(parsed.scale))
             ELSE LET unit == Pow10(parsed.scale)
                      cents == (parsed.num * 100) \div unit
                      rest == (parsed.num * 100) % unit
                      rounded == IF \/ 2 * rest > unit
                                    \/ 2 * rest = unit
                                           /\ <<parsed.num, parsed.scale>> \in TiesRoundedUp
                                 THEN cents + 1 ELSE cents
                  IN  IF rest = 0 /\ cents \notin InexactCents
                      THEN RStripChar(RStripChar(FormatTwoDecimals(cents), "0"), ".")
                      ELSE FormatTwoDecimals(rounded)

FreeEntries ==
    {<<"f", "r", "e", "e">>, <<"f", "r", "e", "e", " ", "t", "o", " ", "e", "n", "t", "e", "r">>, <<"0">>,
     <<"0", ".", "0", "0">>, <<"$", "0">>, <<"$", "0", ".", "0", "0">>}
NoFeeStr == <<"n", "o", " ", "f", "e", "e">>
SepDash == <<" ", "-", " ">>
SepTo == <<" ", "t", "o", " ">>

normalize_fee(fee_str0) ==
    IF fee_str0 = <<>> THEN <<>>
    ELSE LET fee_str == Strip(fee_str0)
         IN  IF Lower(fee_str) \in FreeEntries THEN FreeStr
             ELSE IF Contains(NoFeeStr, Lower(fee_str)) THEN FreeStr
             ELSE LET isRange == Contains(SepDash, fee_str) \/ Contains(SepTo, Lower(fee_str))
                      separator == IF Contains(SepDash, fee_str) THEN SepDash ELSE SepTo
                      parts == SplitOn(fee_str, separator)
                      min_fee == normalize_single_fee(parts[1])
                      max_fee == normalize_single_fee(parts[2])
                  IN  IF isRange /\ Len(parts) = 2 /\ min_fee # <<>> /\ max_fee # <<>>
                      THEN min_fee \o <<"-">> \o max_fee
                      ELSE normalize_single_fee(fee_str)

\* the fee strings of the model: a side alone, and two sides around " - "
\* or " to "
FeeSides ==
    {<<"1", "5", ".", "0", "0">>, <<"2", "2", ".", "5", "0">>, <<"2", "0">>, <<"$", "4", "5", ".", "5", "0">>,
     <<"1", ".", "1", "0">>, <<"0", ".", "0", "0">>, <<"1", "9", ".", "9", "9">>, <<"M", "e", "m", "b", "e", "r", "s">>, <<>>}
FeeInputs ==
    FeeSides \cup {a \o sep \o b : a \in FeeSides, b \in FeeSides, sep \in {SepDash, SepTo}}
        \cup {<<"F", "r", "e", "e", " ", "t", "o", " ", "E", "n", "t", "e", "r">>, <<"N", "o", " ", "F", "e", "e">>}

InitFee ==
    /\ store = <<>>
    /\ InitRun({})
    /\ InitIngest({TRUE})
    /\ fn_args \in [fn : {"normalize_fee"}, fee_str : FeeInputs, batch : {NoCall}]
    /\ fn_done = FALSE
    /\ fn_result = NoCall

CallNormalizeFee ==
    /\ fn_args.fn = "normalize_fee"
    /\ ~fn_done
    /\ fn_result' = normalize_fee(fn_args.fee_str)
    /\ fn_done' = TRUE
    /\ UNCHANGED <<fn_args, evars, dvars>>

\* batch_normalize_fees, lines 107-113, on a record whose fee is the string
\* normalize_fee returned (BaseScraper.normalize_opportunity stores it): an
\* empty fee is left alone, another is normalized and stored if it changed
batch_normalize_fees(opp) ==
    IF opp.fee # <<>> /\ normalize_fee(opp.fee) # opp.fee
    THEN [fee |-> normalize_fee(opp.fee), fee_normalized |-> TRUE]
    ELSE opp

BatchNormalizeFees ==
    /\ fn_args.fn = "normalize_fee"
    /\ fn_done
    /\ fn_args.batch = NoCall
    /\ fn_args' = [fn_args EXCEPT !.batch = batch_normalize_fees([fee |-> fn_result])]
    /\ UNCHANGED <<fn_result, fn_done, evars, dvars>>

NextFee ==
    \/ CallNormalizeFee
    \/ BatchNormalizeFees

SpecFee == InitFee /\ [][NextFee]_vars

\* ------------------------------------------------------------------------
\* Part IV  the location enricher (src/utils/location_enricher.py); strings
\*          are sequences of one-character strings
\* ------------------------------------------------------------------------
UpperChar(c) ==
    IF \E k \in 1..26 : LowerLetters[k] = c
    THEN UpperLetters[CHOOSE k \in 1..26 : LowerLetters[k] = c]
    ELSE c

\* a regular expression as a tree: t is the kind of node and a its content
\*   set / not   one character in / not in the set a
\*   any         "."                lit    the characters of a, in order
\*   seq / alt   the nodes of a in sequence / the first of a that matches
\*   star / plus / opt              greedy a*, a+, a?
\*   lazy / lazyplus                a*?, a+?
\*   grp         a = <<n, node>>, capture group n
\*   b / end     \b and $ (under re.MULTILINE)
Re(t, a) == [t |-> t, a |-> a]

\* the backtracking matcher of Python's re: the regular expressions of
\* `stack`, in order, matched against s from position pos; caps[n] is the
\* span of group n; ic is re.IGNORECASE.  The first match in priority order.
RECURSIVE ReMatch(_, _, _, _, _)
ReMatch(stack, s, pos, caps, ic) ==
    IF stack = <<>> THEN [ok |-> TRUE, end |-> pos, caps |-> caps]
    ELSE LET n == Head(stack)
             rest == Tail(stack)
             fail == [ok |-> FALSE]
             has == pos <= Len(s)
             InAt(S, p) == \/ s[p] \in S
                           \/ ic /\ (LowerChar(s[p]) \in S \/ UpperChar(s[p]) \in S)
             In(S) == InAt(S, pos)
             Word(p) == /\ p >= 1 /\ p <= Len(s)
                        /\ s[p] \in Range(UpperLetters) \cup Range(LowerLetters)
                                       \cup Range(DigitChars) \cup {"_"}
             Then(more, p) == ReMatch(more \o rest, s, p, caps, ic)
             Either(first, second) ==
                 LET r == ReMatch(first \o rest, s, pos, caps, ic)
                 IN  IF r.ok THEN r ELSE ReMatch(second \o rest, s, pos, caps, ic)
         IN  CASE n.t = "set" -> IF has /\ In(n.a) THEN Then(<<>>, pos + 1) ELSE fail
               [] n.t = "not" -> IF has /\ ~In(n.a) THEN Then(<<>>, pos + 1) ELSE fail
               [] n.t = "any" -> IF has /\ s[pos] # "\n" THEN Then(<<>>, pos + 1) ELSE fail
               [] n.t = "lit" ->
                      LET text == SubSeq(s, pos, pos + Len(n.a) - 1)
                      IN  IF /\ pos + Len(n.a) - 1 <= Len(s)
                             /\ (text = n.a \/ (ic /\ Lower(text) = Lower(n.a)))
                          THEN Then(<<>>, pos + Len(n.a)) ELSE fail
               [] n.t = "seq" -> Then(n.a, pos)
               [] n.t = "alt" ->
                      IF n.a = <<>> THEN fail
                      ELSE Either(<<Head(n.a)>>, <<Re("alt", Tail(n.a))>>)
               [] n.t \in {"star", "plus", "lazy", "lazyplus"} /\ n.a.t \in {"set", "not", "any"} ->
                      \* a repeated single character: the run of matching
                      \* characters at pos, and the longest (greedy) or
                      \* shortest (lazy) part of it after which the rest matches
                      LET One(p) == CASE n.a.t = "set" -> InAt(n.a.a, p)
                                      [] n.a.t = "not" -> ~InAt(n.a.a, p)
                                      [] n.a.t = "any" -> s[p] # "\n"
                          left == Len(s) - pos + 1
                          run == CHOOSE m \in 0..left :
                                     /\ \A j \in 0..(m - 1) : One(pos + j)
                                     /\ m = left \/ ~One(pos + m)
                          least == IF n.t \in {"plus", "lazyplus"} THEN 1 ELSE 0
                          Ok(k) == ReMatch(rest, s, pos + k, caps, ic).ok
                          tries == run - least
                      IN  IF n.t \in {"star", "plus"}
                          THEN IF \E d \in 0..tries : Ok(run - d)
                               THEN Then(<<>>, pos + run -
                                        (CHOOSE d \in 0..tries :
                                            Ok(run - d) /\ \A e \in 0..(d - 1) : ~Ok(run - e)))
                               ELSE fail
                          ELSE IF \E d \in 0..tries : Ok(least + d)
                               THEN Then(<<>>, pos + least +
                                        (CHOOSE d \in 0..tries :
                                            Ok(least + d) /\ \A e \in 0..(d - 1) : ~Ok(least + e)))
                               ELSE fail
               [] n.t = "star" -> Either(<<n.a, n>>, <<>>)
               [] n.t = "lazy" -> Either(<<>>, <<n.a, n>>)
               [] n.t = "plus" -> Then(<<n.a, Re("star", n.a)>>, pos)
               [] n.t = "lazyplus" -> Then(<<n.a, Re("lazy", n.a)>>, pos)
               [] n.t = "opt" -> Either(<<n.a>>, <<>>)
               [] n.t = "grp" ->
                      ReMatch(<<n.a[2], Re("close", n.a[1])>> \o rest, s, pos,
                              [caps EXCEPT ![n.a[1]] = <<pos, pos>>], ic)
               [] n.t = "close" ->
                      ReMatch(rest, s, pos, [caps EXCEPT ![n.a] = <<@[1], pos>>], ic)
               [] n.t = "b" -> IF Word(pos - 1) # Word(pos) THEN Then(<<>>, pos) ELSE fail
               [] n.t = "end" ->
                      IF pos = Len(s) + 1 \/ s[pos] = "\n" THEN Then(<<>>, pos) ELSE fail

\* re.search(pattern, s): the leftmost match; group[n] is match.group(n)
re_search(pattern, s, ic) ==
    LET RECURSIVE From(_)
        At(p, m) ==
            IF m.ok
            THEN [ok |-> TRUE, start |-> p, end |-> m.end,
                  group |-> [g \in 1..2 |-> SubSeq(s, m.caps[g][1], m.caps[g][2] - 1)]]
            ELSE From(p + 1)
        From(p) ==
            IF p > Len(s) + 1 THEN [ok |-> FALSE]
            ELSE At(p, ReMatch(<<pattern>>, s, p, <<<<1, 1>>, <<1, 1>>>>, ic))
    IN  From(1)

\* re.sub(pattern, repl, s) for a pattern that matches no empty string
re_sub(pattern, repl, s, ic) ==
    LET RECURSIVE From(_)
        At(p, m) ==
            IF m.ok /\ m.end > p THEN repl \o From(m.end)
            ELSE <<s[p]>> \o From(p + 1)
        From(p) ==
            IF p > Len(s) THEN <<>>
            ELSE At(p, ReMatch(<<pattern>>, s, p, <<<<1, 1>>, <<1, 1>>>>, ic))
    IN  From(1)

\* location_normalizer.STATE_ABBREV, in dict order: <<name, abbreviation>>
STATE_ABBREV ==
    <<<<<<"a", "l", "a", "b", "a", "m", "a">>, <<"A", "L">>>>,
      <<<<"a", "l", "a", "s", "k", "a">>, <<"A", "K">>>>,
      <<<<"a", "r", "i", "z", "o", "n", "a">>, <<"A", "Z">>>>,
      <<<<"a", "r", "k", "a", "n", "s", "a", "s">>, <<"A", "R">>>>,
      <<<<"c", "a", "l", "i", "f", "o", "r", "n", "i", "a">>, <<"C", "A">>>>,
      <<<<"c", "o", "l", "o", "r", "a", "d", "o">>, <<"C", "O">>>>,
      <<<<"c", "o", "n", "n", "e", "c", "t", "i", "c", "u", "t">>, <<"C", "T">>>>,
      <<<<"d", "e", "l", "a", "w", "a", "r", "e">>, <<"D", "E">>>>,
      <<<<"f", "l", "o", "r", "i", "d", "a">>, <<"F", "L">>>>,
      <<<<"g", "e", "o", "r", "g", "i", "a">>, <<"G", "A">>>>,
      <<<<"h", "a", "w", "a", "i", "i">>, <<"H", "I">>>>,
      <<<<"i", "d", "a", "h", "o">>, <<"I", "D">>>>,
      <<<<"i", "l", "l", "i", "n", "o", "i", "s">>, <<"I", "L">>>>,
      <<<<"i", "n", "d", "i", "a", "n", "a">>, <<"I", "N">>>>,
      <<<<"i", "o", "w", "a">>, <<"I", "A">>>>,
      <<<<"k", "a", "n", "s", "a", "s">>, <<"K", "S">>>>,
      <<<<"k", "e", "n", "t", "u", "c", "k", "y">>, <<"K", "Y">>>>,
      <<<<"l", "o", "u", "i", "s", "i", "a", "n", "a">>, <<"L", "A">>>>,
      <<<<"m", "a", "i", "n", "e">>, <<"M", "E">>>>,
      <<<<"m", "a", "r", "y", "l", "a", "n", "d">>, <<"M", "D">>>>,
      <<<<"m", "a", "s", "s", "a", "c", "h", "u", "s", "e", "t", "t", "s">>, <<"M", "A">>>>,
      <<<<"m", "i", "c", "h", "i", "g", "a", "n">>, <<"M", "I">>>>,
      <<<<"m", "i", "n", "n", "e", "s", "o", "t", "a">>, <<"M", "N">>>>,
      <<<<"m", "i", "s", "s", "i", "s", "s", "i", "p", "p", "i">>, <<"M", "S">>>>,
      <<<<"m", "i", "s", "s", "o", "u", "r", "i">>, <<"M", "O">>>>,
      <<<<"m", "o", "n", "t", "a", "n", "a">>, <<"M", "T">>>>,
      <<<<"n", "e", "b", "r", "a", "s", "k", "a">>, <<"N", "E">>>>,
      <<<<"n", "e", "v", "a", "d", "a">>, <<"N", "V">>>>,
      <<<<"n", "e", "w", " ", "h", "a", "m", "p", "s", "h", "i", "r", "e">>, <<"N", "H">>>>,
      <<<<"n", "e", "w", " ", "j", "e", "r", "s", "e", "y">>, <<"N", "J">>>>,
      <<<<"n", "e", "w", " ", "m", "e", "x", "i", "c", "o">>, <<"N", "M">>>>,
      <<<<"n", "e", "w", " ", "y", "o", "r", "k">>, <<"N", "Y">>>>,
      <<<<"n", "o", "r", "t", "h", " ", "c", "a", "r", "o", "l", "i", "n", "a">>, <<"N", "C">>>>,
      <<<<"n", "o", "r", "t", "h", " ", "d", "a", "k", "o", "t", "a">>, <<"N", "D">>>>,
      <<<<"o", "h", "i", "o">>, <<"O", "H">>>>,
      <<<<"o", "k", "l", "a", "h", "o", "m", "a">>, <<"O", "K">>>>,
      <<<<"o", "r", "e", "g", "o", "n">>, <<"O", "R">>>>,
      <<<<"p", "e", "n", "n", "s", "y", "l", "v", "a", "n", "i", "a">>, <<"P", "A">>>>,
      <<<<"r", "h", "o", "d", "e", " ", "i", "s", "l", "a", "n", "d">>, <<"R", "I">>>>,
      <<<<"s", "o", "u", "t", "h", " ", "c", "a", "r", "o", "l", "i", "n", "a">>, <<"S", "C">>>>,
      <<<<"s", "o", "u", "t", "h", " ", "d", "a", "k", "o", "t", "a">>, <<"S", "D">>>>,
      <<<<"t", "e", "n", "n", "e", "s", "s", "e", "e">>, <<"T", "N">>>>,
      <<<<"t", "e", "x", "a", "s">>, <<"T", "X">>>>,
      <<<<"u", "t", "a", "h">>, <<"U", "T">>>>,
      <<<<"v", "e", "r", "m", "o", "n", "t">>, <<"V", "T">>>>,
      <<<<"v", "i", "r", "g", "i", "n", "i", "a">>, <<"V", "A">>>>,
      <<<<"w", "a", "s", "h", "i", "n", "g", "t", "o", "n">>, <<"W", "A">>>>,
      <<<<"w", "e", "s", "t", " ", "v", "i", "r", "g", "i", "n", "i", "a">>, <<"W", "V">>>>,
      <<<<"w", "i", "s", "c", "o", "n", "s", "i", "n">>, <<"W", "I">>>>,
      <<<<"w", "y", "o", "m", "i", "n", "g">>, <<"W", "Y">>>>,
      <<<<"d", "i", "s", "t", "r", "i", "c", "t", " ", "o", "f", " ", "c", "o", "l", "u", "m", "b", "i", "a">>, <<"D", "C">>>>,
      <<<<"w", "a", "s", "h", "i", "n", "g", "t", "o", "n", " ", "d", "c">>, <<"D", "C">>>>,
      <<<<"w", "a", "s", "h", "i", "n", "g", "t", "o", "n", " ", "d", ".", "c", ".">>, <<"D", "C">>>>,
      <<<<"p", "u", "e", "r", "t", "o", " ", "r", "i", "c", "o">>, <<"P", "R">>>>,
      <<<<"v", "i", "r", "g", "i", "n", " ", "i", "s", "l", "a", "n", "d", "s">>, <<"V", "I">>>>,
      <<<<"g", "u", "a", "m">>, <<"G", "U">>>>,
      <<<<"o", "n", "t", "a", "r", "i", "o">>, <<"O", "N">>>>,
      <<<<"q", "u", "e", "b", "e", "c">>, <<"Q", "C">>>>,
      <<<<"b", "r", "i", "t", "i", "s", "h", " ", "c", "o", "l", "u", "m", "b", "i", "a">>, <<"B", "C">>>>,
      <<<<"a", "l", "b", "e", "r", "t", "a">>, <<"A", "B">>>>,
      <<<<"m", "a", "n", "i", "t", "o", "b", "a">>, <<"M", "B">>>>,
      <<<<"s", "a", "s", "k", "a", "t", "c", "h", "e", "w", "a", "n">>, <<"S", "K">>>>,
      <<<<"n", "o", "v", "a", " ", "s", "c", "o", "t", "i", "a">>, <<"N", "S">>>>,
      <<<<"n", "e", "w", " ", "b", "r", "u", "n", "s", "w", "i", "c", "k">>, <<"N", "B">>>>,
      <<<<"n", "e", "w", "f", "o", "u", "n", "d", "l", "a", "n", "d">>, <<"N", "L">>>>,
      <<<<"p", "r", "i", "n", "c", "e", " ", "e", "d", "w", "a", "r", "d", " ", "i", "s", "l", "a", "n", "d">>, <<"P", "E">>>>>>
\* state_mapper.STATE_CODE_MAP: <<code, name, abbreviation>>
STATE_CODE_MAP ==
    <<<<<<"1">>, <<"A", "l", "a", "b", "a", "m", "a">>, <<"A", "L">>>>,
      <<<<"2">>, <<"A", "l", "a", "s", "k", "a">>, <<"A", "K">>>>,
      <<<<"3">>, <<"A", "r", "i", "z", "o", "n", "a">>, <<"A", "Z">>>>,
      <<<<"4">>, <<"A", "r", "k", "a", "n", "s", "a", "s">>, <<"A", "R">>>>,
      <<<<"5">>, <<"C", "a", "l", "i", "f", "o", "r", "n", "i", "a">>, <<"C", "A">>>>,
      <<<<"6">>, <<"C", "o", "l", "o", "r", "a", "d", "o">>, <<"C", "O">>>>,
      <<<<"7">>, <<"C", "o", "n", "n", "e", "c", "t", "i", "c", "u", "t">>, <<"C", "T">>>>,
      <<<<"8">>, <<"D", "e", "l", "a", "w", "a", "r", "e">>, <<"D", "E">>>>,
      <<<<"9">>, <<"F", "l", "o", "r", "i", "d", "a">>, <<"F", "L">>>>,
      <<<<"1", "0">>, <<"G", "e", "o", "r", "g", "i", "a">>, <<"G", "A">>>>,
      <<<<"1", "1">>, <<"H", "a", "w", "a", "i", "i">>, <<"H", "I">>>>,
      <<<<"1", "2">>, <<"I", "d", "a", "h", "o">>, <<"I", "D">>>>,
      <<<<"1", "3">>, <<"I", "l", "l", "i", "n", "o", "i", "s">>, <<"I", "L">>>>,
      <<<<"1", "4">>, <<"I", "n", "d", "i", "a", "n", "a">>, <<"I", "N">>>>,
      <<<<"1", "5">>, <<"I", "o", "w", "a">>, <<"I", "A">>>>,
      <<<<"1", "6">>, <<"K", "a", "n", "s", "a", "s">>, <<"K", "S">>>>,
      <<<<"1", "7">>, <<"K", "e", "n", "t", "u", "c", "k", "y">>, <<"K", "Y">>>>,
      <<<<"1", "8">>, <<"L", "o", "u", "i", "s", "i", "a", "n", "a">>, <<"L", "A">>>>,
      <<<<"1", "9">>, <<"L", "o", "u", "i", "s", "i", "a", "n", "a">>, <<"L", "A">>>>,
      <<<<"2", "0">>, <<"M", "a", "i", "n", "e">>, <<"M", "E">>>>,
      <<<<"2", "1">>, <<"M", "a", "r", "y", "l", "a", "n", "d">>, <<"M", "D">>>>,
      <<<<"2", "2">>, <<"M", "a", "s", "s", "a", "c", "h", "u", "s", "e", "t", "t", "s">>, <<"M", "A">>>>,
      <<<<"2", "3">>, <<"M", "i", "c", "h", "i", "g", "a", "n">>, <<"M", "I">>>>,
      <<<<"2", "4">>, <<"M", "i", "n", "n", "e", "s", "o", "t", "a">>, <<"M", "N">>>>,
      <<<<"2", "5">>, <<"M", "i", "s", "s", "i", "s", "s", "i", "p", "p", "i">>, <<"M", "S">>>>,
      <<<<"2", "6">>, <<"M", "i", "s", "s", "o", "u", "r", "i">>, <<"M", "O">>>>,
      <<<<"2", "7">>, <<"M", "o", "n", "t", "a", "n", "a">>, <<"M", "T">>>>,
      <<<<"2", "8">>, <<"N", "e", "b", "r", "a", "s", "k", "a">>, <<"N", "E">>>>,
      <<<<"2", "9">>, <<"N", "e", "v", "a", "d", "a">>, <<"N", "V">>>>,
      <<<<"3", "0">>, <<"N", "e", "w", " ", "H", "a", "m", "p", "s", "h", "i", "r", "e">>, <<"N", "H">>>>,
      <<<<"3", "1">>, <<"N", "e", "w", " ", "J", "e", "r", "s", "e", "y">>, <<"N", "J">>>>,
      <<<<"3", "2">>, <<"N", "e", "w", " ", "M", "e", "x", "i", "c", "o">>, <<"N", "M">>>>,
      <<<<"3", "3">>, <<"N", "e", "w", " ", "Y", "o", "r", "k">>, <<"N", "Y">>>>,
      <<<<"3", "4">>, <<"N", "o", "r", "t", "h", " ", "C", "a", "r", "o", "l", "i", "n", "a">>, <<"N", "C">>>>,
      <<<<"3", "5">>, <<"N", "o", "r", "t", "h", " ", "D", "a", "k", "o", "t", "a">>, <<"N", "D">>>>,
      <<<<"3", "6">>, <<"O", "h", "i", "o">>, <<"O", "H">>>>,
      <<<<"3", "7">>, <<"O", "k", "l", "a", "h", "o", "m", "a">>, <<"O", "K">>>>,
      <<<<"3", "8">>, <<"O", "r", "e", "g", "o", "n">>, <<"O", "R">>>>,
      <<<<"3", "9">>, <<"P", "e", "n", "n", "s", "y", "l", "v", "a", "n", "i", "a">>, <<"P", "A">>>>,
      <<<<"4", "0">>, <<"R", "h", "o", "d", "e", " ", "I", "s", "l", "a", "n", "d">>, <<"R", "I">>>>,
      <<<<"4", "1">>, <<"S", "o", "u", "t", "h", " ", "C", "a", "r", "o", "l", "i", "n", "a">>, <<"S", "C">>>>,
      <<<<"4", "2">>, <<"S", "o", "u", "t", "h", " ", "D", "a", "k", "o", "t", "a">>, <<"S", "D">>>>,
      <<<<"4", "3">>, <<"T", "e", "n", "n", "e", "s", "s", "e", "e">>, <<"T", "N">>>>,
      <<<<"4", "4">>, <<"T", "e", "x", "a", "s">>, <<"T", "X">>>>,
      <<<<"4", "5">>, <<"U", "t", "a", "h">>, <<"U", "T">>>>,
      <<<<"4", "6">>, <<"V", "e", "r", "m", "o", "n", "t">>, <<"V", "T">>>>,
      <<<<"4", "7">>, <<"V", "i", "r", "g", "i", "n", "i", "a">>, <<"V", "A">>>>,
      <<<<"4", "8">>, <<"W", "a", "s", "h", "i", "n", "g", "t", "o", "n">>, <<"W", "A">>>>,
      <<<<"4", "9">>, <<"W", "e", "s", "t", " ", "V", "i", "r", "g", "i", "n", "i", "a">>, <<"W", "V">>>>,
      <<<<"5", "0">>, <<"W", "i", "s", "c", "o", "n", "s", "i", "n">>, <<"W", "I">>>>,
      <<<<"5", "1">>, <<"W", "y", "o", "m", "i", "n", "g">>, <<"W", "Y">>>>,
      <<<<"5", "2">>, <<"I", "n", "t", "e", "r", "n", "a", "t", "i", "o", "n", "a", "l">>, <<"I", "N", "T", "L">>>>>>
\* COUNTRIES, a set, listed in the order of the source
COUNTRIES ==
    <<<<"u", "n", "i", "t", "e", "d", " ", "s", "t", "a", "t", "e", "s">>,
      <<"u", "s", "a">>,
      <<"c", "a", "n", "a", "d", "a">>,
      <<"u", "n", "i", "t", "e", "d", " ", "k", "i", "n", "g", "d", "o", "m">>,
      <<"u", "k">>,
      <<"a", "u", "s", "t", "r", "a", "l", "i", "a">>,
      <<"g", "e", "r", "m", "a", "n", "y">>,
      <<"f", "r", "a", "n", "c", "e">>,
      <<"i", "t", "a", "l", "y">>,
      <<"s", "p", "a", "i", "n">>,
      <<"n", "e", "t", "h", "e", "r", "l", "a", "n", "d", "s">>,
      <<"b", "e", "l", "g", "i", "u", "m">>,
      <<"j", "a", "p", "a", "n">>,
      <<"c", "h", "i", "n", "a">>,
      <<"i", "n", "d", "i", "a">>,
      <<"m", "e", "x", "i", "c", "o">>,
      <<"b", "r", "a", "z", "i", "l">>,
      <<"a", "r", "g", "e", "n", "t", "i", "n", "a">>,
      <<"s", "o", "u", "t", "h", " ", "a", "f", "r", "i", "c", "a">>,
      <<"e", "g", "y", "p", "t">>,
      <<"i", "s", "r", "a", "e", "l">>,
      <<"d", "u", "b", "a", "i">>,
      <<"s", "i", "n", "g", "a", "p", "o", "r", "e">>,
      <<"k", "o", "r", "e", "a">>,
      <<"s", "w", "e", "d", "e", "n">>,
      <<"n", "o", "r", "w", "a", "y">>,
      <<"d", "e", "n", "m", "a", "r", "k">>,
      <<"f", "i", "n", "l", "a", "n", "d">>,
      <<"s", "w", "i", "t", "z", "e", "r", "l", "a", "n", "d">>,
      <<"a", "u", "s", "t", "r", "i", "a">>,
      <<"p", "o", "r", "t", "u", "g", "a", "l">>,
      <<"g", "r", "e", "e", "c", "e">>,
      <<"t", "u", "r", "k", "e", "y">>,
      <<"r", "u", "s", "s", "i", "a">>,
      <<"p", "o", "l", "a", "n", "d">>,
      <<"c", "z", "e", "c", "h", " ", "r", "e", "p", "u", "b", "l", "i", "c">>,
      <<"n", "e", "w", " ", "z", "e", "a", "l", "a", "n", "d">>,
      <<"i", "r", "e", "l", "a", "n", "d">>,
      <<"s", "c", "o", "t", "l", "a", "n", "d">>,
      <<"w", "a", "l", "e", "s">>>>
\* CANADIAN_PROVINCES, in dict order: <<province, abbreviation>>
CANADIAN_PROVINCES ==
    <<<<<<"o", "n", "t", "a", "r", "i", "o">>, <<"O", "N">>>>,
      <<<<"q", "u", "e", "b", "e", "c">>, <<"Q", "C">>>>,
      <<<<"b", "r", "i", "t", "i", "s", "h", " ", "c", "o", "l", "u", "m", "b", "i", "a">>, <<"B", "C">>>>,
      <<<<"a", "l", "b", "e", "r", "t", "a">>, <<"A", "B">>>>,
      <<<<"m", "a", "n", "i", "t", "o", "b", "a">>, <<"M", "B">>>>,
      <<<<"s", "a", "s", "k", "a", "t", "c", "h", "e", "w", "a", "n">>, <<"S", "K">>>>,
      <<<<"n", "o", "v", "a", " ", "s", "c", "o", "t", "i", "a">>, <<"N", "S">>>>,
      <<<<"n", "e", "w", " ", "b", "r", "u", "n", "s", "w", "i", "c", "k">>, <<"N", "B">>>>,
      <<<<"n", "e", "w", "f", "o", "u", "n", "d", "l", "a", "n", "d">>, <<"N", "L">>>>,
      <<<<"p", "r", "i", "n", "c", "e", " ", "e", "d", "w", "a", "r", "d", " ", "i", "s", "l", "a", "n", "d">>, <<"P", "E">>>>,
      <<<<"n", "o", "r", "t", "h", "w", "e", "s", "t", " ", "t", "e", "r", "r", "i", "t", "o", "r", "i", "e", "s">>, <<"N", "T">>>>,
      <<<<"y", "u", "k", "o", "n">>, <<"Y", "T">>>>,
      <<<<"n", "u", "n", "a", "v", "u", "t">>, <<"N", "U">>>>>>
\* VENUE_KEYWORDS
VENUE_KEYWORDS ==
    <<<<"g", "a", "l", "l", "e", "r", "y">>,
      <<"m", "u", "s", "e", "u", "m">>,
      <<"c", "e", "n", "t", "e", "r">>,
      <<"c", "e", "n", "t", "r", "e">>,
      <<"s", "t", "u", "d", "i", "o">>,
      <<"s", "p", "a", "c", "e">>,
      <<"i", "n", "s", "t", "i", "t", "u", "t", "e">>,
      <<"f", "o", "u", "n", "d", "a", "t", "i", "o", "n">>,
      <<"s", "o", "c", "i", "e", "t", "y">>,
      <<"c", "o", "l", "l", "e", "g", "e">>,
      <<"u", "n", "i", "v", "e", "r", "s", "i", "t", "y">>,
      <<"l", "i", "b", "r", "a", "r", "y">>,
      <<"t", "h", "e", "a", "t", "e", "r">>,
      <<"t", "h", "e", "a", "t", "r", "e">>,
      <<"p", "a", "v", "i", "l", "i", "o", "n">>,
      <<"h", "a", "l", "l">>,
      <<"s", "c", "h", "o", "o", "l">>>>
\* dict lookups on a table of rows keyed by their first element
InDict(tbl, k) == \E j \in DOMAIN tbl : tbl[j][1] = k
DictRow(tbl, k) == tbl[CHOOSE j \in DOMAIN tbl : tbl[j][1] = k]

\* str.upper(), str.split() on whitespace, sep.join(parts), and
\* ' '.join(word.capitalize() for word in s.split())
Upper(s) == [k \in DOMAIN s |-> UpperChar(s[k])]
RECURSIVE SplitWords(_)
SplitWords(s) ==
    LET t == LStrip(s)
        n == IF \E k \in DOMAIN t : t[k] \in Whitespace
             THEN (CHOOSE k \in DOMAIN t :
                      t[k] \in Whitespace /\ \A j \in 1..(k - 1) : t[j] \notin Whitespace) - 1
             ELSE Len(t)
    IN  IF t = <<>> THEN <<>>
        ELSE <<SubSeq(t, 1, n)>> \o SplitWords(SubSeq(t, n + 1, Len(t)))
RECURSIVE Join(_, _)
Join(parts, sep) ==
    IF parts = <<>> THEN <<>>
    ELSE IF Len(parts) = 1 THEN parts[1]
    ELSE parts[1] \o sep \o Join(Tail(parts), sep)
CapitalizeWords(s) ==
    LET words == SplitWords(s)
    IN  Join([k \in DOMAIN words |->
                 <<UpperChar(words[k][1])>> \o Lower(Tail(words[k]))], <<" ">>)

\* the pieces the patterns share: ([A-Z][a-z]+(?:\s+[A-Z][a-z]+)*) as group
\* n, [,\s]+, ([A-Z]{2}) as group n, \s+, and (?:w1|w2|...)
ReCity(n) ==
    LET upper == Re("set", Range(UpperLetters))
        lowers == Re("plus", Re("set", Range(LowerLetters)))
        spaces == Re("plus", Re("set", Whitespace))
    IN  Re("grp", <<n, Re("seq", <<upper, lowers,
                                   Re("star", Re("seq", <<spaces, upper, lowers>>))>>)>>)
ReSep == Re("plus", Re("set", {","} \cup Whitespace))
ReState(n) ==
    Re("grp", <<n, Re("seq", <<Re("set", Range(UpperLetters)),
                               Re("set", Range(UpperLetters))>>)>>)
ReSpaces == Re("plus", Re("set", Whitespace))
ReWords(ws) == Re("alt", [k \in DOMAIN ws |-> Re("lit", ws[k])])
\* \d+\s+[\w\s]+(?:St|Street|Rd|Road|Ave|Avenue|Blvd|Boulevard|Dr|Drive)[,\s]+
ReStreet ==
    Re("seq", <<Re("plus", Re("set", Range(DigitChars))), ReSpaces,
                Re("plus", Re("set", {c \in Range(UpperLetters) \cup Range(LowerLetters)
                                          \cup Range(DigitChars) \cup {"_"} : TRUE}
                                     \cup Whitespace)),
                ReWords(<<<<"S", "t">>, <<"S", "t", "r", "e", "e", "t">>, <<"R", "d">>, <<"R", "o", "a", "d">>, <<"A", "v", "e">>, <<"A", "v", "e", "n", "u", "e">>,
                          <<"B", "l", "v", "d">>, <<"B", "o", "u", "l", "e", "v", "a", "r", "d">>, <<"D", "r">>, <<"D", "r", "i", "v", "e">>>>),
                ReSep>>)

\* LOCATION_PATTERNS, in list order
LOCATION_PATTERNS ==
    LET wordOrSpace == Re("set", Range(UpperLetters) \cup Range(LowerLetters)
                                     \cup Range(DigitChars) \cup {"_"} \cup Whitespace)
    IN  << Re("seq", <<ReWords(<<<<"l", "o", "c", "a", "t", "e", "d">>, <<"b", "a", "s", "e", "d">>, <<"s", "i", "t", "u", "a", "t", "e", "d">>, <<"h", "e", "l", "d">>>>), ReSpaces,
                       ReWords(<<<<"i", "n">>, <<"a", "t">>>>), ReSpaces,
                       Re("opt", Re("seq", <<Re("lit", <<"t", "h", "e">>), ReSpaces>>)),
                       Re("opt", Re("seq", <<Re("lazyplus", wordOrSpace),
                                             ReWords(<<<<"G", "a", "l", "l", "e", "r", "y">>, <<"M", "u", "s", "e", "u", "m">>, <<"C", "e", "n", "t", "e", "r">>,
                                                       <<"I", "n", "s", "t", "i", "t", "u", "t", "e">>, <<"F", "o", "u", "n", "d", "a", "t", "i", "o", "n">>,
                                                       <<"S", "t", "u", "d", "i", "o">>, <<"S", "p", "a", "c", "e">>>>),
                                             ReSpaces>>)),
                       Re("opt", Re("seq", <<Re("lit", <<"i", "n">>), ReSpaces>>)),
                       ReCity(1), ReSep, ReState(2), Re("b", 0)>>),
           Re("seq", <<Re("b", 0), ReCity(1), ReSep, ReState(2), ReSpaces,
                       Re("alt", <<Re("seq", <<Re("lit", <<"r", "e", "s", "i", "d", "e", "n", "t">>),
                                               Re("opt", Re("lit", <<"s">>))>>),
                                   Re("seq", <<Re("lit", <<"a", "r", "t", "i", "s", "t">>),
                                               Re("opt", Re("lit", <<"s">>))>>),
                                   Re("lit", <<"o", "n", "l", "y">>)>>)>>),
           Re("seq", <<ReStreet, ReCity(1), ReSep, ReState(2), Re("b", 0)>>),
           Re("seq", <<ReWords(<<<<"e", "x", "h", "i", "b", "i", "t", "i", "o", "n">>, <<"s", "h", "o", "w">>, <<"d", "i", "s", "p", "l", "a", "y">>, <<"e", "v", "e", "n", "t">>>>), ReSpaces,
                       ReWords(<<<<"a", "t">>, <<"i", "n">>>>), ReSpaces, Re("plus", wordOrSpace),
                       ReSpaces, Re("lit", <<"i", "n">>), ReSpaces,
                       ReCity(1), ReSep, ReState(2), Re("b", 0)>>),
           Re("seq", <<Re("b", 0), ReCity(1), ReSep, ReState(2), Re("b", 0),
                       Re("alt", <<Re("set", {"."} \cup Whitespace), Re("end", 0)>>)>>) >>

is_online_location(location) ==
    LET online_keywords == <<<<"o", "n", "l", "i", "n", "e">>, <<"v", "i", "r", "t", "u", "a", "l">>, <<"z", "o", "o", "m">>, <<"d", "i", "g", "i", "t", "a", "l">>, <<"r", "e", "m", "o", "t", "e">>,
                             <<"i", "n", "t", "e", "r", "n", "e", "t">>, <<"w", "e", "b", "-", "b", "a", "s", "e", "d">>, <<"w", "e", "b", "i", "n", "a", "r">>, <<"s", "t", "r", "e", "a", "m", "i", "n", "g">>>>
    IN  \E k \in DOMAIN online_keywords : Contains(online_keywords[k], Lower(location))

\* lines 166-266 of standardize_location, on the cleaned-up string; the loop
\* over the set COUNTRIES is taken in the order of the source text (the order
\* matters only for a location that names two countries)
StandardizeCleaned(location) ==
    LET location_lower == Lower(location)
        CityBefore(tail) == Re("seq", <<ReCity(1), ReSep, tail>>)
        WithCity(city_match, country) ==
            IF city_match.ok
            THEN CapitalizeWords(city_match.group[1]) \o <<",", " ">> \o country
            ELSE country
        First(S) == CHOOSE j \in S : \A h \in S : j <= h
        provinces == {j \in DOMAIN CANADIAN_PROVINCES :
                         \/ Contains(CANADIAN_PROVINCES[j][1], location_lower)
                         \/ Contains(<<",", " ">> \o CANADIAN_PROVINCES[j][2], location)
                         \/ Contains(<<" ">> \o CANADIAN_PROVINCES[j][2] \o <<" ">>, location)}
        province == CANADIAN_PROVINCES[First(provinces)]
        countries == {j \in DOMAIN COUNTRIES :
                         /\ Contains(COUNTRIES[j], location_lower)
                         /\ COUNTRIES[j] \notin {<<"u", "n", "i", "t", "e", "d", " ", "s", "t", "a", "t", "e", "s">>, <<"u", "s", "a">>, <<"c", "a", "n", "a", "d", "a">>,
                                                 <<"u", "k">>, <<"u", "n", "i", "t", "e", "d", " ", "k", "i", "n", "g", "d", "o", "m">>}}
        country == COUNTRIES[First(countries)]
        parts == SplitOn(location, <<",">>)
        zip == Re("seq", <<Re("star", Re("set", Whitespace)),
                           Re("set", Range(DigitChars)), Re("set", Range(DigitChars)),
                           Re("set", Range(DigitChars)), Re("set", Range(DigitChars)),
                           Re("set", Range(DigitChars)),
                           Re("opt", Re("seq", <<Re("lit", <<"-">>),
                                                 Re("set", Range(DigitChars)),
                                                 Re("set", Range(DigitChars)),
                                                 Re("set", Range(DigitChars)),
                                                 Re("set", Range(DigitChars))>>)),
                           Re("star", Re("set", Whitespace))>>)
        Named(state, named) ==
            IF named # {} THEN STATE_ABBREV[First(named)][2] ELSE state
        StateOf(state, state_lower) ==
            IF Len(state) > 2 /\ InDict(STATE_ABBREV, state_lower)
            THEN DictRow(STATE_ABBREV, state_lower)[2]
            ELSE IF Len(state) = 2 THEN Upper(state)
            ELSE Named(state, {j \in DOMAIN STATE_ABBREV :
                                  Contains(STATE_ABBREV[j][1], state_lower)})
        CityState(city, state0, state, otherwise) ==
            IF Contains(<<",">>, location) /\ state0 # <<>>
               /\ \A k \in DOMAIN state0 : IsDigit(state0[k])
            THEN city \o <<",", " ">>
                     \o (IF InDict(STATE_CODE_MAP, state0)
                         THEN DictRow(STATE_CODE_MAP, state0)[3] ELSE state0)
            ELSE IF Contains(<<",">>, location) /\ city # <<>> /\ state # <<>>
            THEN city \o <<",", " ">> \o state
            ELSE otherwise
        Parts(city, state0, otherwise) ==
            CityState(city, state0, StateOf(state0, Lower(state0)), otherwise)
        Address(address_match) ==
            IF address_match.ok
            THEN CapitalizeWords(address_match.group[1]) \o <<",", " ">>
                     \o Upper(address_match.group[2])
            ELSE IF ~Contains(<<" ">>, location) /\ Len(location) > 2
                    /\ InDict(STATE_ABBREV, location_lower)
            THEN Upper(DictRow(STATE_ABBREV, location_lower)[2])
            ELSE None
    IN  IF Contains(<<"c", "a", "n", "a", "d", "a">>, location_lower)
        THEN IF provinces # {}
             THEN WithCity(re_search(CityBefore(ReWords(<<province[1], province[2]>>)),
                                     location, TRUE),
                           province[2] \o <<",", " ", "C", "a", "n", "a", "d", "a">>)
             ELSE WithCity(re_search(CityBefore(Re("lit", <<"C", "a", "n", "a", "d", "a">>)), location, TRUE),
                           <<"C", "a", "n", "a", "d", "a">>)
        ELSE IF Contains(<<"u", "k">>, location_lower) \/ Contains(<<"u", "n", "i", "t", "e", "d", " ", "k", "i", "n", "g", "d", "o", "m">>, location_lower)
        THEN WithCity(re_search(CityBefore(ReWords(<<<<"U", "K">>, <<"U", "n", "i", "t", "e", "d", " ", "K", "i", "n", "g", "d", "o", "m">>>>)),
                                location, TRUE),
                      <<"U", "n", "i", "t", "e", "d", " ", "K", "i", "n", "g", "d", "o", "m">>)
        ELSE IF countries # {}
        THEN WithCity(re_search(CityBefore(Re("lit", country)), location, TRUE),
                      CapitalizeWords(country))
        ELSE Parts(CapitalizeWords(Strip(parts[1])),
                   Strip(re_sub(zip, <<>>, Strip(parts[2]), FALSE)),
                   Address(re_search(Re("seq", <<ReStreet, ReCity(1), ReSep, ReState(2)>>),
                                     location, TRUE)))

\* standardize_location: lines 155-164, then the rest on the cleaned-up string
standardize_location(location) ==
    IF is_online_location(location) THEN OnlineStr
    ELSE StandardizeCleaned(
             Strip(re_sub(ReSpaces, <<" ">>,
                          re_sub(Re("seq", <<Re("lit", <<"(">>), Re("lazy", Re("any", 0)),
                                             Re("lit", <<")">>)>>),
                                 <<>>, location, FALSE), FALSE)))

\* extract_location_from_text: the dict returned, or None
\* an extract_location_from_text whose every match is of high confidence
extract_location_from_text_sure(text) ==
    [found |-> text # <<>>, location |-> text, confidence |-> "high", type |-> "physical"]

NoLocation == [found |-> FALSE]
extract_location_from_text(text) ==
    LET StateOf(state) ==
            IF InDict(STATE_ABBREV, Lower(state)) THEN DictRow(STATE_ABBREV, Lower(state))[2]
            ELSE IF Len(state) = 2 THEN Upper(state)
            ELSE None
        Physical(city, state, confidence) ==
            [found |-> TRUE, location |-> Strip(city) \o <<",", " ">> \o state,
             confidence |-> confidence, type |-> "physical"]
        RECURSIVE Venues(_)
        Venue(k, m) ==
            IF m.ok THEN Physical(m.group[1], Upper(m.group[2]), "low") ELSE Venues(k + 1)
        Venues(k) ==
            IF k > Len(VENUE_KEYWORDS) THEN NoLocation
            ELSE Venue(k, re_search(Re("seq", <<Re("lit", VENUE_KEYWORDS[k]),
                                                Re("lazy", Re("not", {"."})),
                                                ReCity(1), ReSep, ReState(2)>>), text, TRUE))
        RECURSIVE Templates(_)
        Matched(k, m, state) ==
            IF m.ok /\ state # None THEN Physical(m.group[1], state, "medium")
            ELSE Templates(k + 1)
        Template(k, m) == Matched(k, m, StateOf(Strip(m.group[2])))
        Templates(k) ==
            IF k > Len(LOCATION_PATTERNS) THEN Venues(1)
            ELSE Template(k, re_search(LOCATION_PATTERNS[k], text, TRUE))
    IN  IF is_online_location(SubSeq(text, 1, Min(Len(text), 500)))
        THEN [found |-> TRUE, location |-> OnlineStr, confidence |-> "high", type |-> "online"]
        ELSE Templates(1)

\* extract_location_from_org: the location string, or None
extract_location_from_org(org) ==
    LET Location(m) == Strip(m.group[1]) \o <<",", " ">> \o Upper(m.group[2])
        Second(m) == IF m.ok /\ Len(Upper(m.group[2])) = 2 THEN Location(m) ELSE None
        First(m) ==
            IF m.ok /\ Len(Upper(m.group[2])) = 2 THEN Location(m)
            ELSE Second(re_search(Re("seq", <<ReCity(1), ReSep, ReState(2), ReSpaces,
                                              ReWords(VENUE_KEYWORDS)>>), org, TRUE))
    IN  First(re_search(Re("seq", <<ReWords(<<<<"o", "f">>, <<"i", "n">>>>), ReSpaces,
                                    ReCity(1), ReSep, ReState(2)>>), org, TRUE))
NotSpecifiedStr == <<"N", "o", "t", " ", "S", "p", "e", "c", "i", "f", "i", "e", "d">>

\* line 103: whether step 2 looks at the description
ScanAlways(location_meta, extract_from_description) == TRUE

ShouldScanDescription(location_meta, extract_from_description) ==
    /\ ~Truthy(location_meta.enriched) \/ location_meta.confidence = "low"
    /\ extract_from_description

\* lines 72-130 of enrich_location: location_meta after the four steps
\* (confidence, type and extraction_source are the strings of the code,
\* "None" standing for None)
ResolveLocation(opportunity, extract_from_description) ==
    LET Step1(location_meta, current_location, standardized) ==
            IF current_location = <<>> THEN location_meta
            ELSE IF is_online_location(current_location)
            THEN [location_meta EXCEPT !.enriched = OnlineStr, !.type = "online",
                                       !.extraction_source = "field"]
            ELSE IF Truthy(standardized) /\ standardized # NotSpecifiedStr
            THEN [location_meta EXCEPT !.enriched = standardized, !.type = "physical",
                                       !.extraction_source = "field"]
            ELSE [location_meta EXCEPT !.confidence = "low"]
        Step2(location_meta, extracted) ==
            IF /\ ShouldScanDescription(location_meta, extract_from_description)
               /\ opportunity.description # <<>>
               /\ extracted.found
            THEN [location_meta EXCEPT !.enriched = extracted.location,
                                       !.confidence = extracted.confidence,
                                       !.type = extracted.type,
                                       !.extraction_source = "description"]
            ELSE location_meta
        Step3(location_meta, org_location) ==
            IF /\ ~Truthy(location_meta.enriched)
               /\ opportunity.organization # <<>>
               /\ Truthy(org_location)
            THEN [location_meta EXCEPT !.enriched = org_location, !.confidence = "medium",
                                       !.type = "physical", !.extraction_source = "inferred"]
            ELSE location_meta
        Step4(location_meta) ==
            IF ~Truthy(location_meta.enriched)
            THEN [location_meta EXCEPT !.enriched = NotSpecifiedStr,
                                       !.confidence = "not_specified",
                                       !.type = "not_specified",
                                       !.extraction_source = "None"]
            ELSE location_meta
        Start(current_location, standardized) ==
            Step1([original |-> current_location, enriched |-> None, confidence |-> "high",
                   type |-> "None", extraction_source |-> "None"],
                  current_location, standardized)
    IN  Step4(Step3(Step2(Start(Strip(opportunity.location),
                                standardize_location(Strip(opportunity.location))),
                          extract_location_from_text(opportunity.description)),
                    extract_location_from_org(opportunity.organization)))

\* an enrich_location that leaves the record's location field as it was
enrich_location_keeping_field(opportunity, extract_from_description) ==
    [opportunity EXCEPT
        !.extras = Put(@, "location_metadata",
                       ResolveLocation(opportunity, extract_from_description))]

\* enrich_location: lines 132-140 applied to the metadata of lines 72-130
enrich_location(opportunity, extract_from_description) ==
    LET Store(location_meta) ==
            [opportunity EXCEPT !.location = location_meta.enriched,
                                !.extras = Put(@, "location_metadata", location_meta)]
    IN  Store(ResolveLocation(opportunity, extract_from_description))

MaxEnrichCalls == 2    \* enrich_location calls on one record

\* the records of the model: location, description and organization drawn
\* from a few strings each, extras empty
EnrichInputs ==
    [location : {<<>>, <<"O", "n", "l", "i", "n", "e">>, <<"Z", "o", "o", "m", " ", "c", "a", "l", "l">>, <<"N", "o", "t", " ", "S", "p", "e", "c", "i", "f", "i", "e", "d">>, <<"E", "m", "a", "i", "l">>,
                 <<"r", "o", "m", "e", ",", " ", "n", "y">>, <<"T", "e", "x", "a", "s">>, <<"T", "B", "D">>},
     description : {<<>>, <<"S", "h", "o", "w", " ", "h", "e", "l", "d", " ", "i", "n", " ", "R", "o", "m", "e", ",", " ", "N", "Y", ".">>, <<"A", " ", "v", "i", "r", "t", "u", "a", "l", " ", "s", "h", "o", "w">>, <<"O", "p", "e", "n", " ", "c", "a", "l", "l">>,
                    <<"G", "a", "l", "l", "e", "r", "y", " ", "R", "o", "m", "e", " ", "N", "Y", "C">>, <<"S", "h", "o", "w", " ", "h", "e", "l", "d", " ", "i", "n", " ", "R", "o", "m", "e", ",", " ", "Z", "z", ".">>},
     organization : {<<>>, <<"G", "a", "l", "l", "e", "r", "y", " ", "o", "f", " ", "A", "u", "s", "t", "i", "n", ",", " ", "T", "X">>},
     extras : {<<>>}]

InitEnrich ==
    /\ store = <<>>
    /\ InitRun({})
    /\ InitIngest({TRUE})
    /\ \E opportunity \in EnrichInputs, flag \in BOOLEAN :
          fn_args = [fn |-> "enrich_location", opportunity |-> opportunity,
                     extract_from_description |-> flag, raw |-> opportunity.location]
    /\ fn_done = FALSE
    /\ fn_result = [calls |-> 0, given |-> <<>>, metas |-> <<>>]

\* one call of enrich_location on the record, which the call updates in
\* place; given and metas keep the record passed to and the metadata written
\* by each call
CallEnrichLocation ==
    /\ fn_args.fn = "enrich_location"
    /\ fn_result.calls < MaxEnrichCalls
    /\ \E returned \in {enrich_location(fn_args.opportunity, fn_args.extract_from_description)} :
           /\ fn_args' = [fn_args EXCEPT !.opportunity = returned]
           /\ fn_result' =
                  [calls |-> fn_result.calls + 1,
                   given |-> Append(fn_result.given, fn_args.opportunity),
                   metas |-> Append(fn_result.metas, returned.extras.location_metadata)]
    /\ fn_done' = TRUE
    /\ UNCHANGED <<evars, dvars>>

NextEnrich == CallEnrichLocation

SpecEnrich == InitEnrich /\ [][NextEnrich]_vars

\* ------------------------------------------------------------------------
\* Part V: single calls of needs_enrichment, of the parsing of the oracle's
\* reply, of normalize_location and of OpportunityAggregator.deduplicate.
\* ------------------------------------------------------------------------

\* lines 149-168 of src/smart_enrichment.py: the reply is stripped; a reply
\* with "null" among its first 20 characters, lower-cased, gives no answer;
\* a reply with a brace is cut from its first "{" to the "}" that brings the
\* count of braces back to zero (braces inside strings count too); json.loads
\* reads what remains, and every exception gives no answer.  json.loads is
\* modelled on objects (nested too), strings, integers and true/false/null.
ParseResponse(text) ==
    LET content == Strip(text)
        RECURSIVE Object(_, _, _, _)
        Object(s, pos, state, depth) ==
            IF pos > Len(s) THEN state = "done"
            ELSE IF state \in {"inkey", "instr"}
            THEN IF s[pos] = "\\" THEN Object(s, pos + 2, state, depth)
                 ELSE IF s[pos] = "\""
                 THEN Object(s, pos + 1, IF state = "inkey" THEN "colon" ELSE "next", depth)
                 ELSE Object(s, pos + 1, state, depth)
            ELSE IF s[pos] \in Whitespace
            THEN Object(s, pos + 1, IF state = "innum" THEN "next" ELSE state, depth)
            ELSE IF state = "innum" /\ s[pos] \in Range(DigitChars)
            THEN Object(s, pos + 1, state, depth)
            ELSE IF s[pos] = "{" /\ state \in {"open", "value"}
            THEN Object(s, pos + 1, "first", depth + 1)
            ELSE IF s[pos] = "}" /\ state \in {"first", "next", "innum"}
            THEN Object(s, pos + 1, IF depth = 1 THEN "done" ELSE "next", depth - 1)
            ELSE IF s[pos] = "," /\ state \in {"next", "innum"}
            THEN Object(s, pos + 1, "key", depth)
            ELSE IF s[pos] = "\"" /\ state \in {"first", "key"}
            THEN Object(s, pos + 1, "inkey", depth)
            ELSE IF s[pos] = ":" /\ state = "colon"
            THEN Object(s, pos + 1, "value", depth)
            ELSE IF state # "value" THEN FALSE
            ELSE IF s[pos] = "\"" THEN Object(s, pos + 1, "instr", depth)
            ELSE IF s[pos] \in Range(DigitChars) THEN Object(s, pos + 1, "innum", depth)
            ELSE IF \E word \in {<<"n", "u", "l", "l">>, <<"t", "r", "u", "e">>} : SubSeq(s, pos, pos + 3) = word
            THEN Object(s, pos + 4, "next", depth)
            ELSE IF SubSeq(s, pos, pos + 4) = <<"f", "a", "l", "s", "e">>
            THEN Object(s, pos + 5, "next", depth)
            ELSE FALSE
        Scalar(s) ==
            \/ s # <<>> /\ \A k \in DOMAIN s : s[k] \in Range(DigitChars)
            \/ s \in {<<"t", "r", "u", "e">>, <<"f", "a", "l", "s", "e">>}
            \/ /\ Len(s) >= 2 /\ s[1] = "\"" /\ s[Len(s)] = "\""
               /\ \A k \in 2..(Len(s) - 1) : s[k] \notin {"\"", "\\"}
        json_loads(s) ==
            IF Object(s, 1, "open", 0) THEN [kind |-> "object", text |-> s]
            ELSE IF Scalar(s) THEN [kind |-> "scalar", text |-> s]
            ELSE NoResult
        Count(s, c, n) == Cardinality({j \in 1..n : s[j] = c})
        Balanced(s) ==
            {n \in DOMAIN s : s[n] = "}" /\ Count(s, "{", n) = Count(s, "}", n)}
        Closed(s) ==
            IF Balanced(s) = {} THEN s
            ELSE SubSeq(s, 1, CHOOSE n \in Balanced(s) : \A m \in Balanced(s) : n <= m)
        FromBrace(s) ==
            SubSeq(s, CHOOSE n \in DOMAIN s : s[n] = "{" /\ \A m \in 1..(n - 1) : s[m] # "{",
                   Len(s))
    IN  IF Contains(<<"n", "u", "l", "l">>, SubSeq(Lower(content), 1, Min(Len(content), 20)))
        THEN NoResult
        ELSE json_loads(IF Contains(<<"{">>, content) THEN Closed(FromBrace(content)) ELSE content)

\* clean_showsubmit_location, lines 98-138 of src/utils/location_normalizer.py,
\* with what it saw: the string after the removals of lines 105-117, whether
\* the address pattern of line 121 and the city/state pattern of line 135
\* matched it, and the value returned
ShowsubmitScan(location) ==
    LET Rest(words) == Re("seq", <<Re("lit", words), Re("star", Re("any", <<>>))>>)
        Parenthetical == Re("seq", <<Re("lit", <<"(">>), Re("lazy", Re("any", <<>>)), Re("lit", <<")">>)>>)
        WordChar == Range(UpperLetters) \cup Range(LowerLetters) \cup Range(DigitChars) \cup {"_"}
        Street == ReWords(<<<<"S", "t">>, <<"S", "t", "r", "e", "e", "t">>, <<"R", "d">>, <<"R", "o", "a", "d">>, <<"A", "v", "e">>, <<"A", "v", "e", "n", "u", "e">>,
                            <<"B", "l", "v", "d">>, <<"B", "o", "u", "l", "e", "v", "a", "r", "d">>, <<"D", "r">>, <<"D", "r", "i", "v", "e">>>>)
        AddressPattern ==
            Re("seq", <<Re("grp", <<1, Re("seq", <<Re("plus", Re("set", Range(DigitChars))),
                                                   ReSpaces,
                                                   Re("plus", Re("set", WordChar \cup Whitespace)),
                                                   Street>>)>>),
                        ReSep, Re("grp", <<2, Re("plus", Re("set", WordChar))>>)>>)
        StatePattern(city) ==
            Re("seq", <<Re("lit", city), ReSep,
                        Re("grp", <<1, Re("alt", <<Re("seq", <<Re("set", Range(UpperLetters)),
                                                               Re("set", Range(UpperLetters))>>),
                                                   Re("plus", Re("set", WordChar))>>)>>)>>)
        CityStatePattern ==
            Re("seq", <<ReCity(1), ReSep,
                        Re("grp", <<2, Re("alt", <<Re("seq", <<Re("set", Range(UpperLetters)),
                                                               Re("set", Range(UpperLetters))>>),
                                                   Re("seq", <<Re("set", Range(UpperLetters)),
                                                               Re("plus", Re("set", Range(LowerLetters)))>>)>>)>>)>>)
        \* re.search and re.sub by the positions where the pattern matches:
        \* the leftmost match, and every match after the end of the one before
        Try(pattern, s, p, ic) == ReMatch(<<pattern>>, s, p, <<<<1, 1>>, <<1, 1>>>>, ic)
        Hit(s, m) ==
            [ok |-> TRUE, group |-> [g \in 1..2 |-> SubSeq(s, m.caps[g][1], m.caps[g][2] - 1)]]
        Leftmost(hits) == CHOOSE p \in hits : \A q \in hits : p <= q
        Hits(pattern, s, from, ic) == {p \in from..(Len(s) + 1) : Try(pattern, s, p, ic).ok}
        Find(pattern, s) ==
            IF Hits(pattern, s, 1, FALSE) = {} THEN [ok |-> FALSE]
            ELSE Hit(s, Try(pattern, s, Leftmost(Hits(pattern, s, 1, FALSE)), FALSE))
        RECURSIVE Strike(_, _, _)
        Struck(pattern, s, from, p) ==
            SubSeq(s, from, p - 1) \o Strike(pattern, s, Try(pattern, s, p, TRUE).end)
        Strike(pattern, s, from) ==
            IF Hits(pattern, s, from, TRUE) = {} THEN SubSeq(s, from, Len(s))
            ELSE Struck(pattern, s, from, Leftmost(Hits(pattern, s, from, TRUE)))
        Resolve(city, state) ==
            IF Len(state) = 2 THEN city \o <<",", " ">> \o state
            ELSE IF InDict(STATE_ABBREV, Lower(state))
            THEN city \o <<",", " ">> \o DictRow(STATE_ABBREV, Lower(state))[2]
            ELSE None
        Cut(joined) == SubSeq(joined, 1, Min(Len(joined), 50))
        Fallback(cleaned) == IF Len(cleaned) > 3 THEN cleaned ELSE <<>>
        FromCityState(cleaned, city_state_match) ==
            IF /\ city_state_match.ok
               /\ Resolve(city_state_match.group[1], city_state_match.group[2]) # None
            THEN Resolve(city_state_match.group[1], city_state_match.group[2])
            ELSE Fallback(Cut(Join(SplitWords(cleaned), <<" ">>)))
        FromState(city, state_match, otherwise) ==
            IF state_match.ok /\ Resolve(city, state_match.group[1]) # None
            THEN Resolve(city, state_match.group[1])
            ELSE otherwise
        FromAddress(cleaned, address_match, otherwise) ==
            IF address_match.ok
            THEN FromState(address_match.group[2],
                           Find(StatePattern(address_match.group[2]), cleaned),
                           otherwise)
            ELSE otherwise
        Scan(cleaned, address_match, city_state_match) ==
            [cleaned |-> cleaned, address |-> address_match.ok,
             city_state |-> city_state_match.ok,
             result |-> FromAddress(cleaned, address_match,
                                    FromCityState(cleaned, city_state_match))]
        Searched(cleaned) ==
            Scan(cleaned, Find(AddressPattern, cleaned),
                 Find(CityStatePattern, cleaned))
        Removals ==
            <<Parenthetical, Rest(<<"E", "n", "t", "r", "y", " ", "F", "e", "e">>), Rest(<<"E", "l", "i", "g", "i", "b", "i", "l", "i", "t", "y">>), Rest(<<"D", "e", "a", "d", "l", "i", "n", "e">>),
              Rest(<<"E", "x", "h", "i", "b", "i", "t", "i", "o", "n">>), Rest(<<"g", "a", "l", "l", "e", "r", "y", " ", "o", "p", "e", "n", "s">>), Rest(<<"A", "r", "t", "i", "s", "t", "s", " ", "c", "a", "n", " ", "e", "n", "t", "e", "r">>)>>
        RECURSIVE Removed(_, _)
        Removed(cleaned, k) ==
            IF k > Len(Removals) THEN Searched(cleaned)
            ELSE CHOOSE scan \in {Removed(next, k + 1) :
                                      next \in {Strike(Removals[k], cleaned, 1)}} : TRUE
    IN  Removed(location, 1)

clean_showsubmit_location(location) == ShowsubmitScan(location).result

\* normalize_location(location, platform), lines 33-86, for the platforms
\* artcall, showsubmit and zapplication
normalize_location(location, platform) ==
    IF location = <<>> THEN <<>>
    ELSE IF \E word \in {<<"o", "n", "l", "i", "n", "e">>, <<"v", "i", "r", "t", "u", "a", "l">>, <<"z", "o", "o", "m">>, <<"d", "i", "g", "i", "t", "a", "l">>} :
                Contains(word, Lower(Strip(location)))
    THEN OnlineStr
    ELSE IF platform = "artcall"
    THEN IF InDict(STATE_ABBREV, Lower(Strip(location)))
         THEN Upper(DictRow(STATE_ABBREV, Lower(Strip(location)))[2])
         ELSE Strip(location)
    ELSE IF platform = "showsubmit" THEN clean_showsubmit_location(Strip(location))
    ELSE Strip(location)

MaxAggregated == 3    \* records the aggregator holds when deduplicate runs

\* a merge that prefers the values of the later record
MergePreferringLater(kept, opp) ==
    [key \in DOMAIN kept \cup DOMAIN opp |->
        IF key \in DOMAIN opp /\ Truthy(opp[key]) THEN opp[key] ELSE kept[key]]

\* lines 65-67 of src/main.py: every non-empty value of the duplicate whose
\* key the kept record lacks or holds empty is copied into the kept record
MergeInto(kept, opp) ==
    [key \in DOMAIN kept \cup {k \in DOMAIN opp : Truthy(opp[k])} |->
        IF /\ key \in DOMAIN opp /\ Truthy(opp[key])
           /\ (key \notin DOMAIN kept \/ ~Truthy(kept[key]))
        THEN opp[key] ELSE kept[key]]

\* OpportunityAggregator.deduplicate, lines 47-73: the records left in
\* self.opportunities and the entries added to self.duplicates, which
\* __init__ made empty
deduplicate(collected) ==
    LET Seen(unique, opp) ==
            {k \in DOMAIN unique : Strip(Lower(unique[k].title)) = Strip(Lower(opp.title))}
        Merged(unique, duplicates, opp, k) ==
            [opportunities |-> [unique EXCEPT ![k] = MergeInto(unique[k], opp)],
             duplicates |-> Append(duplicates,
                                   [title |-> opp.title,
                                    platforms |-> <<unique[k].source_platform,
                                                    opp.source_platform>>])]
        Step(unique, duplicates, opp) ==
            IF Seen(unique, opp) = {}
            THEN [opportunities |-> Append(unique, opp), duplicates |-> duplicates]
            ELSE Merged(unique, duplicates, opp, CHOOSE k \in Seen(unique, opp) : TRUE)
        RECURSIVE Loop(_, _)
        Loop(n, state) ==
            IF n > Len(collected) THEN state
            ELSE Loop(n + 1, Step(state.opportunities, state.duplicates, collected[n]))
    IN  Loop(1, [opportunities |-> <<>>, duplicates |-> <<>>])

\* the records add_opportunities collected: a title in several spellings, a
\* platform, a location that may be empty or None, and sometimes a fee
Aggregated ==
    {[title |-> <<"A", "r", "t", " ", "S", "h", "o", "w">>, source_platform |-> <<"c", "a", "f", "e">>, location |-> <<>>],
     [title |-> <<" ", "a", "r", "t", " ", "s", "h", "o", "w", " ">>, source_platform |-> <<"a", "r", "t", "c", "a", "l", "l">>, location |-> <<"R", "o", "m", "e", ",", " ", "N", "Y">>,
      fee |-> <<"$", "2", "0">>],
     [title |-> <<"A", "R", "T", " ", "S", "H", "O", "W">>, source_platform |-> <<"s", "h", "o", "w", "s", "u", "b", "m", "i", "t">>, location |-> <<"T", "r", "o", "y", ",", " ", "N", "Y">>,
      fee |-> <<>>],
     [title |-> <<"A", "r", "t", " ", "S", "h", "o", "w">>, source_platform |-> <<"c", "a", "f", "e">>, location |-> None, fee |-> <<"$", "3", "5">>],
     [title |-> <<"S", "o", "l", "o">>, source_platform |-> <<"c", "a", "f", "e">>, location |-> <<"R", "o", "m", "e", ",", " ", "N", "Y">>],
     [title |-> <<"s", "o", "l", "o", " ">>, source_platform |-> <<"a", "r", "t", "c", "a", "l", "l">>, location |-> <<>>, fee |-> <<"F", "r", "e", "e">>]}

InitCalls ==
    /\ store = <<>>
    /\ InitRun({})
    /\ InitIngest({TRUE})
    /\ fn_done = FALSE
    /\ fn_result = NoCall
    /\ \/ \E raw \in {None, <<>>, GoodRaw, <<"E", "m", "a", "i", "l", ":", " ", "a">>, <<"T", "B", "D">>, <<"N", "A">>, <<"T", "e", "x", "a", "s">>},
             city \in {None, <<>>, CityStr}, state \in {None, StateStr},
             logged \in SUBSET {<<"cafe", 1>>, <<"artcall", 1>>} :
             fn_args = [fn |-> "needs_enrichment",
                        log |-> [EmptyLog EXCEPT !.enriched_ids = [k \in logged |-> 1]],
                        opp |-> [source_platform |-> "cafe", title |-> 1,
                                 location_raw |-> raw, location_city |-> city,
                                 location_state |-> state]]
       \/ \E before \in {<<>>, <<"S", "u", "r", "e", ":", " ">>}, after \in {<<>>, <<" ", "D", "o", "n", "e", ".">>},
             object \in {<<"{", "\"", "c", "i", "t", "y", "\"", ":", " ", "\"", "R", "o", "m", "e", "\"", "}">>, <<"{", "\"", "v", "e", "n", "u", "e", "\"", ":", " ", "n", "u", "l", "l", ",", " ", "\"", "c", "i", "t", "y", "\"", ":", " ", "\"", "R", "o", "m", "e", "\"", "}">>,
                         <<"{", "\"", "c", "i", "t", "y", "\"", ":", " ", "\"", "R", "o", "m", "e", "\"", ",", " ", "\"", "v", "e", "n", "u", "e", "\"", ":", " ", "n", "u", "l", "l", "}">>, <<"{", "\"", "c", "i", "t", "y", "\"", ":", " ", "\"", "a", "}", "b", "\"", "}">>,
                         <<"n", "u", "l", "l">>, <<"N", "o", " ", "l", "o", "c", "a", "t", "i", "o", "n", ".">>, <<"7">>},
             raises \in BOOLEAN :
             fn_args = [fn |-> "parse_response", raises |-> raises,
                        before |-> before, object |-> object, after |-> after,
                        text |-> before \o object \o after]
       \/ \E location \in {<<>>,
                            <<"a", "b", "c">>,
                            <<"a", "b">>,
                            <<"a", "b", "c", "d">>,
                            <<"s", "e", "e", " ", " ", " ", "t", "h", "e", " ", "p", "r", "o", "s", "p", "e", "c", "t", "u", "s", " ", "(", "p", "d", "f", ")", " ", " ", "E", "n", "t", "r", "y", " ", "F", "e", "e", ":", " ", "$", "3", "5">>,
                            <<"s", "e", "e", " ", "t", "h", "e", " ", "p", "r", "o", "s", "p", "e", "c", "t", "u", "s", " ", "f", "o", "r", " ", "t", "h", "e", " ", "a", "d", "d", "r", "e", "s", "s", " ", "o", "f", " ", "t", "h", "e", " ", "v", "e", "n", "u", "e", " ", "a", "n", "d", " ", "a", "l", "l", " ", "t", "h", "e", " ", "d", "a", "t", "e", "s">>,
                            <<"R", "o", "m", "e", ",", " ", "N", "Y">>,
                            <<"1", "2", " ", "M", "a", "i", "n", " ", "S", "t", ",", " ", "R", "o", "m", "e", ",", " ", "N", "Y">>,
                            <<"R", "o", "m", "e", ",", " ", "I", "t", "a", "l", "y">>,
                            <<"o", "n", "l", "i", "n", "e", " ", "s", "h", "o", "w">>,
                            <<"a", " ", " ", "b">>,
                            <<"T", "e", "x", "a", "s">>,
                            <<"1", "2", " ", "M", "a", "i", "n", " ", "S", "t", ",", " ", "R", "o", "m", "e">>},
             platform \in {"showsubmit", "artcall", "zapplication"} :
             fn_args = [fn |-> "normalize_location", location |-> location,
                        platform |-> platform]
       \/ \E n \in 1..MaxAggregated : \E collected \in [1..n -> Aggregated] :
             fn_args = [fn |-> "deduplicate", opportunities |-> collected]

\* SmartEnricher.needs_enrichment(opp) against the log of the enricher
CallNeedsEnrichment ==
    /\ fn_args.fn = "needs_enrichment"
    /\ ~fn_done
    /\ fn_result' = needs_enrichment_of(fn_args.log, fn_args.opp)
    /\ fn_done' = TRUE
    /\ UNCHANGED <<fn_args, evars, dvars>>

\* lines 141-171 of extract_location_with_haiku: the call raises, or the
\* text of the response is parsed
CallParseResponse ==
    /\ fn_args.fn = "parse_response"
    /\ ~fn_done
    /\ fn_result' = IF fn_args.raises THEN NoResult ELSE ParseResponse(fn_args.text)
    /\ fn_done' = TRUE
    /\ UNCHANGED <<fn_args, evars, dvars>>

\* normalize_location(location, platform), with what clean_showsubmit_location
\* sees in the stripped string
CallNormalizeLocation ==
    /\ fn_args.fn = "normalize_location"
    /\ ~fn_done
    /\ fn_result' = [value |-> normalize_location(fn_args.location, fn_args.platform),
                     scan |-> ShowsubmitScan(Strip(fn_args.location))]
    /\ fn_done' = TRUE
    /\ UNCHANGED <<fn_args, evars, dvars>>

\* aggregator.deduplicate() on the records collected, line 194 of main()
CallDeduplicate ==
    /\ fn_args.fn = "deduplicate"
    /\ ~fn_done
    /\ fn_result' = deduplicate(fn_args.opportunities)
    /\ fn_done' = TRUE
    /\ UNCHANGED <<fn_args, evars, dvars>>

NextCalls ==
    \/ CallNeedsEnrichment
    \/ CallParseResponse
    \/ CallNormalizeLocation
    \/ CallDeduplicate

SpecCalls == InitCalls /\ [][NextCalls]_vars

\* ------------------------------------------------------------------ claims
RowById(rows, id) == CHOOSE r \in Range(rows) : r.id = id
RunEnded == pc \in {"returned", "raised"}
StepTaken == last_step.pos # 0
ResultAccepted(r) == r.kind = "object" /\ r.confidence \in {"high", "medium"}
ResultRejected(r) ==
    r.kind = "none" \/ (r.kind = "object" /\ r.confidence \in {"low", "none"})
HasSomethingToWrite(r) == r.is_online \/ r.city # None \/ r.state # None

\* C1: a fetched record whose composite key is in the enrichment log as it
\* was loaded at the start of the run is not in the run's batch and is not
\* submitted to the oracle in that run, whatever its location fields are.
C1_MemoizedNeverResubmitted ==
    pc # "idle" =>
        \A k \in DOMAIN opportunities :
            OppId(opportunities[k]) \in DOMAIN loaded.enriched_ids =>
                /\ \A j \in DOMAIN needs_enrichment :
                       needs_enrichment[j].id # opportunities[k].id
                /\ opportunities[k].id \notin submitted

\* a finished run that worked through a batch while a fetched record with a
\* still-bad location was memoized
C1_Witness ==
    /\ RunEnded
    /\ i > 1
    /\ \E k \in DOMAIN opportunities :
          /\ OppId(opportunities[k]) \in DOMAIN loaded.enriched_ids
          /\ opportunities[k].location_raw = EmptyStr
          /\ opportunities[k].location_city = None
          /\ opportunities[k].location_state = None

\* C2: over all runs, the oracle is invoked at most once for any composite
\* key.
C2_AtMostOneAttempt ==
    \A key \in DOMAIN oracle_calls : oracle_calls[key] <= 1

\* C3: when a run has ended, the key of every batch record whose oracle
\* result was accepted is in the saved enriched_ids.
C3_AcceptedIsStamped ==
    RunEnded => accepted \subseteq DOMAIN logFile.enriched_ids

\* C4: a batch step changes the store only for an accepted result; a
\* rejected result changes no stored field and still stamps the key; an
\* accepted online result sets location_raw to "Online" and nothing else; an
\* accepted physical result sets the present city/state and location_raw to
\* them joined by ", ".
C4_AcceptancePolicy ==
    StepTaken =>
        LET r == last_step.result
            before == RowById(last_step.before, last_step.id)
            after == RowById(store, last_step.id)
            raw == IF r.city # None /\ r.state # None
                   THEN r.city \o <<",", " ">> \o r.state
                   ELSE IF r.city # None THEN r.city
                   ELSE IF r.state # None THEN r.state
                   ELSE before.location_raw
        IN  /\ store # last_step.before => ResultAccepted(r)
            /\ \A k \in DOMAIN store :
                   store[k].id # last_step.id => store[k] = last_step.before[k]
            /\ ResultRejected(r) =>
                   /\ store = last_step.before
                   /\ last_step.key \in DOMAIN enrichment_log.enriched_ids
            /\ (ResultAccepted(r) /\ last_step.store_ok /\ r.is_online) =>
                   after = [before EXCEPT !.location_raw = OnlineStr]
            /\ (ResultAccepted(r) /\ last_step.store_ok /\ ~r.is_online) =>
                   after = [before EXCEPT
                              !.location_city = IF r.city # None THEN r.city ELSE @,
                              !.location_state = IF r.state # None THEN r.state ELSE @,
                              !.location_raw = raw]

\* the step after an accepted "Rome, NY" answer was written
C4_Witness ==
    /\ StepTaken
    /\ ResultAccepted(last_step.result)
    /\ ~last_step.result.is_online
    /\ last_step.result.city = CityStr
    /\ last_step.result.state = StateStr
    /\ RowById(store, last_step.id).location_raw = GoodRaw
    /\ RowById(last_step.before, last_step.id).location_raw = EmptyStr

\* C5: a deadline-changed event is reported for a fetched record exactly when
\* its key is in the loaded previous_deadlines with another value than its
\* deadline_raw; and when the run has ended previous_deadlines holds the
\* current deadline_raw of every fetched record.
C5_DeadlineDrift ==
    /\ pc # "idle" =>
          \A k \in DOMAIN opportunities :
              LET opp == opportunities[k]
                  reported == \E e \in Range(deadline_changes) :
                                  e.id = OppId(opp) /\ e.new = opp.deadline_raw
              IN  IF loaded.has_previous_deadlines
                     /\ OppId(opp) \in DOMAIN loaded.previous_deadlines
                  THEN reported <=> loaded.previous_deadlines[OppId(opp)] # opp.deadline_raw
                  ELSE ~reported
    /\ RunEnded =>
          \A k \in DOMAIN opportunities :
              /\ OppId(opportunities[k]) \in DOMAIN logFile.previous_deadlines
              /\ logFile.previous_deadlines[OppId(opportunities[k])]
                     = opportunities[k].deadline_raw

\* a batch step that failed: the oracle raised or was unparseable, or the store update raised
StepFailed(step) ==
    \/ step.called /\ step.resp.kind \in {"error", "garbage"}
    \/ ResultAccepted(step.result) /\ HasSomethingToWrite(step.result) /\ ~step.store_ok
\* C6: a batch step whose oracle call raised or answered unparseable text, or
\* whose store update raised, leaves the record not enriched and the loop at
\* the next batch record; a run that ended attempted every batch record.
C6_FailureDoesNotAbort ==
    /\ (StepTaken /\ StepFailed(last_step)) =>
          /\ pc = "batch"
          /\ i = last_step.pos + 1
          /\ enriched_count = last_step.count_before
          /\ store = last_step.before
    /\ \A k \in failed : i > k
    /\ RunEnded => i = Len(Batch) + 1

\* a record was attempted after an earlier one of the same run had failed
C6_Witness ==
    /\ StepTaken
    /\ \E k \in failed : last_step.pos > k

\* C7: a run submits at most BatchLimit records to the oracle, all among the
\* first BatchLimit eligible ones; when it has ended, an eligible record
\* beyond them was not submitted, its key is not in enriched_ids and it is
\* still eligible.
C7_BoundedBatch ==
    /\ Cardinality(submitted) <= BatchLimit
    /\ \A id \in submitted :
          \E j \in 1..Min(Len(needs_enrichment), BatchLimit) : needs_enrichment[j].id = id
    /\ RunEnded =>
          \A j \in DOMAIN needs_enrichment :
              j > BatchLimit =>
                  /\ needs_enrichment[j].id \notin submitted
                  /\ OppId(needs_enrichment[j]) \notin DOMAIN logFile.enriched_ids
                  /\ needs_enrichment_of(logFile, RowById(store, needs_enrichment[j].id))

\* the row an upsert found, and the row it left
UpsertOld == CHOOSE r \in last_upsert.before : TRUE
UpsertNew == RowById(table, last_upsert.opportunity.id)
TextColumns ==
    {"title", "organization", "url", "deadline_raw", "location_raw", "description", "email"}

C9_PreserveNonEmpty ==
    last_upsert.status = "updated" =>
        \A f \in TextColumns \cap DOMAIN last_upsert.opportunity \cap DOMAIN UpsertOld :
            (~Truthy(last_upsert.opportunity[f]) /\ Truthy(UpsertOld[f]))
                => UpsertNew[f] = UpsertOld[f]

\* C9 as amended: an update keeps the stored organization when the incoming
\* one is empty and the stored one is not, and keeps first_seen; every other
\* column the incoming record carries takes the incoming value, empty or not;
\* a column it does not carry keeps the stored value.
C9_OrganizationAlonePreserved ==
    last_upsert.status = "updated" =>
        LET sent == last_upsert.opportunity
        IN  /\ UpsertNew.organization =
                   IF ~Truthy(sent.organization) /\ Truthy(UpsertOld.organization)
                   THEN UpsertOld.organization ELSE sent.organization
            /\ UpsertNew.first_seen = UpsertOld.first_seen
            /\ \A f \in DOMAIN sent \ {"organization", "times_seen", "first_seen"} :
                   UpsertNew[f] = sent[f]
            /\ \A f \in DOMAIN UpsertOld \ (DOMAIN sent \cup {"times_seen", "first_seen"}) :
                   UpsertNew[f] = UpsertOld[f]

\* an update whose incoming organization and description were both empty
\* over stored ones that were not
C9_Witness ==
    /\ last_upsert.status = "updated"
    /\ "description" \in DOMAIN last_upsert.opportunity
    /\ ~Truthy(last_upsert.opportunity.organization)
    /\ ~Truthy(last_upsert.opportunity.description)
    /\ Truthy(UpsertOld.organization)
    /\ Truthy(UpsertOld.description)
    /\ UpsertNew.organization = UpsertOld.organization
    /\ UpsertNew.description = <<>>

C11_MergePrefersExistingElseIncoming ==
    (last_upsert.status = "updated" /\ last_upsert.cross) =>
        \A f \in TextColumns :
            UpsertNew[f] = IF Truthy(UpsertOld[f]) THEN UpsertOld[f]
                           ELSE last_upsert.incoming[f]

\* C11 as amended: after a merge into an existing duplicate the stored record
\* holds, for every text column the existing record of the dedup list
\* carries, that record's value (for organization, the stored one if that
\* record's is empty), and for every other text column the value stored
\* before; of the incoming record only the url is kept, as the last
\* alternate url, and no empty column is filled from it.
C11_MergeKeepsExistingOnly ==
    (last_upsert.status = "updated" /\ last_upsert.cross) =>
        LET sent == last_upsert.first
        IN  /\ \A f \in (TextColumns \cap DOMAIN sent) \ {"organization"} :
                   UpsertNew[f] = sent[f]
            /\ UpsertNew.organization =
                   IF Truthy(sent.organization) THEN sent.organization
                   ELSE UpsertOld.organization
            /\ \A f \in TextColumns \ DOMAIN sent : UpsertNew[f] = UpsertOld[f]
            /\ UpsertNew.alternate_urls # <<>>
            /\ UpsertNew.alternate_urls[Len(UpsertNew.alternate_urls)]
                   = last_upsert.incoming.url

\* a merge in which the incoming record had a description and the stored
\* record had none, and the stored record still has none
C11_Witness ==
    /\ last_upsert.status = "updated"
    /\ last_upsert.cross
    /\ ~Truthy(UpsertOld.description)
    /\ Truthy(last_upsert.incoming.description)
    /\ ~Truthy(UpsertNew.description)
    /\ last_upsert.incoming.url \in Range(UpsertNew.alternate_urls)

\* the decision rule of C12 for a candidate c and an existing record e
C12_Jaccard85(t1, t2) ==
    LET a == Range(LowerText(t1))
        b == Range(LowerText(t2))
    IN  a \cup b # {} /\ 100 * Cardinality(a \cap b) > 85 * Cardinality(a \cup b)
C12_Rule(c, e) ==
    \/ e.url = c.url
    \/ LowerText(e.title) = LowerText(c.title)
    \/ /\ Truthy(c.organization)
       /\ Truthy(e.organization)
       /\ LowerText(c.organization) = LowerText(e.organization)
       /\ C12_Jaccard85(c.title, e.title)

\* C12: find_duplicates returns exactly the existing records that have the
\* candidate's url, or its title up to case, or its non-empty organization
\* up to case together with a title whose word set has a Jaccard index above
\* 0.85 with the candidate's; each once, in the order of the existing list.
C12_FindDuplicatesRule ==
    (fn_done /\ fn_args.fn = "find_duplicates") =>
        /\ \A k \in DOMAIN fn_args.existing :
               (k \in Range(fn_result)) <=> C12_Rule(fn_args.opportunity, fn_args.existing[k])
        /\ \A a, b \in DOMAIN fn_result : a < b => fn_result[a] < fn_result[b]

\* a call in which the first existing record has the candidate's
\* organization and 17 of the 20 words of its title and is not returned,
\* and the second has its url under another title and is returned
C12_Witness ==
    /\ fn_done
    /\ fn_args.fn = "find_duplicates"
    /\ Len(fn_args.existing) = 2
    /\ fn_args.opportunity.title = Words20
    /\ fn_args.opportunity.organization = <<"Guild">>
    /\ fn_args.existing[1].title = Words17
    /\ fn_args.existing[1].organization = <<"guild">>
    /\ fn_args.existing[1].url # fn_args.opportunity.url
    /\ fn_args.existing[2].title = <<"Art", "Show">>
    /\ fn_args.existing[2].url = fn_args.opportunity.url
    /\ fn_result = <<2>>

\* the state is the one the last loop iteration left, or the end of its run
AfterLastUpsert ==
    /\ last_upsert.status # "none"
    /\ last_upsert.run = ingests
    /\ Len(queue) = last_upsert.left

\* C19: an upsert in which the store raised adds one to errors and to no
\* other counter and leaves the loop at the next record; the records counted
\* so far and the records still to process add up to total, and a run ends
\* only with every record processed, total = inserted + updated + errors +
\* skipped.
C19_StoreFailurePerRecord ==
    /\ (AfterLastUpsert /\ last_upsert.status = "error") =>
          /\ results = [last_upsert.results_before EXCEPT !.errors = @ + 1]
          /\ table = [k \in 1..last_upsert.rows_before |-> table[k]]
    /\ results.inserted + results.updated + results.errors + results.skipped
           + Len(queue) = results.total
    /\ ipc = "idle" => queue = <<>>

\* a finished run of two records in which the store raised on the first and
\* took the second
C19_Witness ==
    /\ ipc = "idle"
    /\ AfterLastUpsert
    /\ last_upsert.status = "inserted"
    /\ results.total = 2
    /\ results.errors = 1
    /\ results.inserted = 1

\* C20 as stated: without a store connection no record of a batch is
\* normalized, deduplicated or counted.
C20_NoBatchWorkWithoutStore ==
    ~client => (last_upsert.status = "none" /\ results.skipped = 0)

\* C20 as amended: without a store connection ingest_from_json still runs
\* through the batch; every record is normalized and counted as skipped,
\* none as inserted, updated or error, and the store is not written.
C20_WithoutStoreAllSkipped ==
    ~client =>
        /\ table = <<>>
        /\ existing = <<>>
        /\ last_upsert.status \in {"none", "skipped"}
        /\ results.inserted = 0 /\ results.updated = 0 /\ results.errors = 0
        /\ results.skipped + Len(queue) = results.total
        /\ AfterLastUpsert =>
               last_upsert.opportunity = normalize_opportunity(last_upsert.raw)

\* a finished run of two records without a store connection
C20_Witness ==
    /\ ~client
    /\ ipc = "idle"
    /\ AfterLastUpsert
    /\ results.total = 2
    /\ results.skipped = 2
    /\ table = <<>>

\* the decimal amounts of the model: their text and their value in cents
C17_Amounts ==
    {[text |-> <<"1", "5", ".", "0", "0">>, cents |-> 1500],
     [text |-> <<"2", "2", ".", "5", "0">>, cents |-> 2250],
     [text |-> <<"2", "0">>, cents |-> 2000],
     [text |-> <<"1", ".", "1", "0">>, cents |-> 110],
     [text |-> <<"1", "9", ".", "9", "9">>, cents |-> 1999]}
\* "$N" for an integral amount, "$N.dd" for an amount with cents
C17_Render(cents) ==
    IF cents % 100 = 0 THEN <<"$">> \o IntToStr(cents \div 100)
    ELSE FormatTwoDecimals(cents)

\* C17: normalize_fee of a decimal amount is "$N" if the amount is integral
\* and "$N.dd" with both decimal digits otherwise, and normalize_fee of
\* "A - B" with two decimal amounts is the two renderings joined by "-".
C17_RangeRendering ==
    (fn_done /\ fn_args.fn = "normalize_fee") =>
        \A a, b \in C17_Amounts :
            /\ fn_args.fee_str = a.text => fn_result = C17_Render(a.cents)
            /\ fn_args.fee_str = a.text \o SepDash \o b.text =>
                   fn_result = C17_Render(a.cents) \o <<"-">> \o C17_Render(b.cents)

\* C18: for "A - B" or "A to B" with a side that holds no digit, normalize_fee
\* returns what normalize_single_fee returns for the whole string.
C18_RangeFallThrough ==
    (fn_done /\ fn_args.fn = "normalize_fee") =>
        \A a, b \in FeeSides, sep \in {SepDash, SepTo} :
            (/\ fn_args.fee_str = a \o sep \o b
             /\ \/ \A k \in DOMAIN a : ~IsDigit(a[k])
                \/ \A k \in DOMAIN b : ~IsDigit(b[k])) =>
                fn_result = normalize_single_fee(fn_args.fee_str)

\* the record given to the last enrich_location call and the metadata the
\* call wrote
LastGiven == fn_result.given[fn_result.calls]
LastMeta == fn_result.metas[fn_result.calls]
Enriched == fn_args.fn = "enrich_location" /\ fn_result.calls > 0

\* C13: after a call of enrich_location the metadata's enriched value is a
\* non-empty string, and the record's location field is that value.
C13_EnrichedNeverEmpty ==
    Enriched =>
        /\ LastMeta.enriched # None
        /\ LastMeta.enriched # <<>>
        /\ fn_args.opportunity.location = LastMeta.enriched
        /\ fn_args.opportunity.extras.location_metadata = LastMeta

\* a call on a record whose location field held text that resolved to
\* nothing, with no description and no organization to fall back on
C13_Witness ==
    /\ Enriched
    /\ fn_result.calls = 1
    /\ fn_args.raw = <<"E", "m", "a", "i", "l">>
    /\ LastGiven.description = <<>>
    /\ LastGiven.organization = <<>>
    /\ LastMeta.enriched = NotSpecifiedStr
    /\ fn_args.opportunity.location = NotSpecifiedStr

\* what each source yields for a record, taken alone: the location field
\* (step 1), the description (when the flag allows it and there is one) and
\* the organization name
FieldValue(given) ==
    LET current_location == Strip(given.location)
    IN  IF current_location = <<>> THEN None
        ELSE IF is_online_location(current_location) THEN OnlineStr
        ELSE LET Resolved(standardized) ==
                     IF Truthy(standardized) /\ standardized # NotSpecifiedStr
                     THEN standardized ELSE None
             IN  Resolved(standardize_location(current_location))
DescriptionYields(given, flag) ==
    flag /\ given.description # <<>> /\ extract_location_from_text(given.description).found
OrganizationYields(given) ==
    given.organization # <<>> /\ Truthy(extract_location_from_org(given.organization))

\* C14: the description is the source only when the location field resolved
\* to nothing, the flag is set and there is a description; the organization
\* is the source only when neither field nor description gave a value; the
\* sentinel is used only when all three gave nothing; a value resolved from
\* the field stays; without the flag the source is never the description.
C14_OrderedResolution ==
    Enriched =>
        /\ LastMeta.extraction_source = "description" =>
               /\ ~Truthy(FieldValue(LastGiven))
               /\ DescriptionYields(LastGiven, fn_args.extract_from_description)
        /\ LastMeta.extraction_source = "inferred" =>
               /\ ~Truthy(FieldValue(LastGiven))
               /\ ~DescriptionYields(LastGiven, fn_args.extract_from_description)
               /\ OrganizationYields(LastGiven)
        /\ LastMeta.type = "not_specified" =>
               /\ ~Truthy(FieldValue(LastGiven))
               /\ ~DescriptionYields(LastGiven, fn_args.extract_from_description)
               /\ ~OrganizationYields(LastGiven)
        /\ Truthy(FieldValue(LastGiven)) =>
               /\ LastMeta.enriched = FieldValue(LastGiven)
               /\ LastMeta.extraction_source = "field"
        /\ ~fn_args.extract_from_description => LastMeta.extraction_source # "description"

\* a call with the flag set on a record whose location field resolved while
\* its description names another place: the field's value is kept
C14_Witness ==
    /\ Enriched
    /\ fn_result.calls = 1
    /\ fn_args.extract_from_description
    /\ fn_args.raw = <<"T", "e", "x", "a", "s">>
    /\ LastGiven.description = <<"S", "h", "o", "w", " ", "h", "e", "l", "d", " ", "i", "n", " ", "R", "o", "m", "e", ",", " ", "N", "Y", ".">>
    /\ DescriptionYields(LastGiven, TRUE)
    /\ LastMeta.enriched = <<"T", "X">>
    /\ LastMeta.extraction_source = "field"

\* C15: when the first call produced "Online" or "Not Specified", the second
\* call on the returned record produces the same metadata, field for field.
C15_SecondCallSameMetadata ==
    (/\ fn_args.fn = "enrich_location"
     /\ fn_result.calls = 2
     /\ fn_result.metas[1].enriched \in {OnlineStr, NotSpecifiedStr}) =>
        fn_result.metas[2] = fn_result.metas[1]

\* C16: after any number of calls the metadata's original is the location
\* string the record carried before the first call (up to surrounding
\* whitespace).
C16_OriginalIsFirstSeen ==
    Enriched => LastMeta.original = Strip(fn_args.raw)

\* C21: the persisted enrichment log changes only in the step that ends a
\* run, and every run that ends changes it once: what is written is the
\* in-memory log with last_run set to this run and previous_deadlines
\* holding a fetched deadline for the key of every fetched record; while a run is under way,
\* and after a run that was terminated, the persisted log is the one loaded
\* at the start of the run.
C21_LogSavedOnceAtRunEnd ==
    [][/\ (logFile' # logFile \/ (pc = "batch" /\ pc' \in {"returned", "raised"})) =>
              /\ pc = "batch"
              /\ pc' \in {"returned", "raised"}
              /\ logFile' # logFile
              /\ logFile' = enrichment_log'
              /\ logFile'.last_run = runs
              /\ logFile'.enriched_ids = enrichment_log.enriched_ids
              /\ \A k \in DOMAIN opportunities :
                     /\ OppId(opportunities[k]) \in DOMAIN logFile'.previous_deadlines
                     /\ \E j \in DOMAIN opportunities :
                            /\ OppId(opportunities[j]) = OppId(opportunities[k])
                            /\ logFile'.previous_deadlines[OppId(opportunities[k])]
                                   = opportunities[j].deadline_raw
       /\ pc' \in {"batch", "crashed"} => (logFile' = loaded' /\ logFile' = logFile)
      ]_vars

\* a second run terminated in its batch loop after it had stamped a key: the
\* persisted log is still the first run's
C21_Witness ==
    /\ pc = "crashed"
    /\ runs = 2
    /\ logFile = loaded
    /\ logFile.last_run = 1
    /\ DOMAIN enrichment_log.enriched_ids # DOMAIN logFile.enriched_ids

\* C22: needs_enrichment(record) is true exactly when the record's key is
\* not in enriched_ids and either the lower-cased location_raw contains one
\* of "email", "email:", "online", "", "n/a", "na", "unknown", or
\* location_city and location_state are both empty while location_raw is
\* not.
C22_EligibilityTest ==
    (fn_args.fn = "needs_enrichment" /\ fn_done) =>
        LET opp == fn_args.opp
            Empty(v) == v = None \/ v = <<>>
            text == Lower(IF Empty(opp.location_raw) THEN <<>> ELSE opp.location_raw)
            vocabulary == {<<"e", "m", "a", "i", "l">>, <<"e", "m", "a", "i", "l", ":">>, <<"o", "n", "l", "i", "n", "e">>, <<>>, <<"n", "/", "a">>, <<"n", "a">>, <<"u", "n", "k", "n", "o", "w", "n">>}
            SubstringOf(w, t) ==
                \E a \in 0..Len(t) : a + Len(w) <= Len(t) /\ SubSeq(t, a + 1, a + Len(w)) = w
        IN  fn_result <=>
                /\ <<opp.source_platform, opp.title>> \notin DOMAIN fn_args.log.enriched_ids
                /\ \/ \E w \in vocabulary : SubstringOf(w, text)
                   \/ (Empty(opp.location_city) /\ Empty(opp.location_state)
                       /\ ~Empty(opp.location_raw))

\* a record with a parsed city and state and a location text holding none of
\* the non-empty vocabulary entries, whose key is not in the log: eligible
C22_Witness ==
    /\ fn_args.fn = "needs_enrichment"
    /\ fn_done
    /\ fn_args.opp.location_raw = GoodRaw
    /\ fn_args.opp.location_city = CityStr
    /\ fn_args.opp.location_state = StateStr
    /\ <<"cafe", 1>> \notin DOMAIN fn_args.log.enriched_ids
    /\ fn_result

\* C23: for a response made of optional prose, one well-formed JSON object
\* and optional trailing prose, a call that does not raise returns that
\* object, whatever its content (fields whose value is null included); the
\* inputs whose object part starts with a brace are all well-formed objects.
C23_ReturnsEmbeddedObject ==
    (fn_done /\ fn_args.fn = "parse_response" /\ ~fn_args.raises
        /\ fn_args.object[1] = "{")
        => fn_result = [kind |-> "object", text |-> fn_args.object]

\* C24: in the metadata written by every call of enrich_location, source
\* field goes with confidence high; source description with high and type
\* online, or with medium or low and type physical; source inferred with
\* medium and type physical; and the enriched value is "Not Specified"
\* exactly when confidence and type are not_specified and the source is null.
C24_ConsistentMeta(meta) ==
    /\ meta.extraction_source = "field" => meta.confidence = "high"
    /\ meta.extraction_source = "description" =>
           \/ meta.confidence = "high" /\ meta.type = "online"
           \/ meta.confidence \in {"medium", "low"} /\ meta.type = "physical"
    /\ meta.extraction_source = "inferred" =>
           meta.confidence = "medium" /\ meta.type = "physical"
    /\ meta.enriched = NotSpecifiedStr <=>
           /\ meta.confidence = "not_specified"
           /\ meta.type = "not_specified"
           /\ meta.extraction_source = "None"

C24_ConfidenceMatchesProvenance ==
    Enriched => \A k \in DOMAIN fn_result.metas : C24_ConsistentMeta(fn_result.metas[k])

\* two calls on one record: the first took a low-confidence venue match from
\* the description, the second found the value in the field
C24_Witness ==
    /\ Enriched /\ fn_result.calls = 2
    /\ fn_result.metas[1].extraction_source = "description"
    /\ fn_result.metas[1].confidence = "low"
    /\ fn_result.metas[2].extraction_source = "field"

\* the abbreviations of the table STATE_ABBREV
C25_RecognizedStates == {STATE_ABBREV[k][2] : k \in DOMAIN STATE_ABBREV}

\* C25: a template match taken from the description (source description,
\* confidence medium) ends in a state token that is a recognized state or
\* province abbreviation, the one of the full name when the text gave a full
\* name; a match with an unrecognized token is never returned.
C25_TemplateStateRecognized ==
    Enriched =>
        \A k \in DOMAIN fn_result.metas :
            (fn_result.metas[k].extraction_source = "description"
                /\ fn_result.metas[k].confidence = "medium")
            => \E state \in C25_RecognizedStates :
                   /\ Len(fn_result.metas[k].enriched) > Len(state) + 2
                   /\ SubSeq(fn_result.metas[k].enriched,
                             Len(fn_result.metas[k].enriched) - Len(state) - 1,
                             Len(fn_result.metas[k].enriched)) = <<",", " ">> \o state

\* the stripped string has no online word, so that normalize_location hands
\* it to clean_showsubmit_location, where neither pattern matches it
C26_FallsBack ==
    /\ fn_done /\ fn_args.fn = "normalize_location" /\ fn_args.platform = "showsubmit"
    /\ fn_args.location # <<>>
    /\ fn_result.value # OnlineStr
    /\ ~fn_result.scan.address /\ ~fn_result.scan.city_state

C26_Collapsed == Join(SplitWords(fn_result.scan.cleaned), <<" ">>)

\* C26: when neither the street-address pattern nor the city/state pattern
\* matches the cleaned string, normalize_location for showsubmit returns the
\* first 50 characters of the whitespace-collapsed cleaned string if at least
\* 3 characters remain, and the empty string if fewer than 3 remain.
C26_FallbackKeepsThreeChars ==
    C26_FallsBack =>
        fn_result.value =
            IF Len(C26_Collapsed) >= 3
            THEN SubSeq(C26_Collapsed, 1, Min(Len(C26_Collapsed), 50))
            ELSE <<>>

\* C27: every run of process_opportunities returns to its caller without an
\* exception once the log is saved, a run with no eligible record included:
\* the summary after the save never raises.
C27_SummaryNeverRaises == pc # "raised"

\* C28: an incoming record that matches a stored record of its own
\* source_platform is not treated as a cross-platform duplicate: whenever
\* ingest_from_json takes the duplicate branch (the alternate URL is recorded
\* and the existing record replaces the incoming one), the stored record it
\* matched comes from another platform.
C28_SamePlatformNotMerged ==
    (last_upsert.status # "none" /\ last_upsert.cross) =>
        \A r \in last_upsert.before :
            r.source_platform # last_upsert.incoming.source_platform

\* C29: normalize_fee is idempotent: batch_normalize_fees on a record whose
\* fee normalize_fee returned leaves the fee as it is and sets no flag.
C29_NormalizeFeeIdempotent ==
    (fn_args.fn = "normalize_fee" /\ fn_done /\ fn_args.batch # NoCall) =>
        fn_args.batch = [fee |-> fn_result]

\* deduplicate has run: the records before, those left and the report; the
\* positions before of the first record of each lower-cased, trimmed title,
\* and the one of them that stands at place k
C30_Ran == fn_args.fn = "deduplicate" /\ fn_done
C30_Title(opp) == Strip(Lower(opp.title))
C30_Firsts ==
    {n \in DOMAIN fn_args.opportunities :
        \A m \in 1..(n - 1) :
            C30_Title(fn_args.opportunities[m]) # C30_Title(fn_args.opportunities[n])}
C30_First(k) ==
    CHOOSE n \in C30_Firsts : Cardinality({m \in C30_Firsts : m < n}) = k - 1
C30_Later(k) ==
    {m \in DOMAIN fn_args.opportunities :
        /\ m > C30_First(k)
        /\ C30_Title(fn_args.opportunities[m])
               = C30_Title(fn_args.opportunities[C30_First(k)])}

\* C30: after deduplicate no two records left share a lower-cased, trimmed
\* title; the record left for a title is the first one added, in the order
\* they were added; records left plus report entries are as many as the
\* records before; and a record left differs from what it was only in
\* fields that were empty, filled with a value of a later duplicate.
C30_Deduplicate ==
    C30_Ran =>
        /\ \A j, k \in DOMAIN fn_result.opportunities :
               j # k => C30_Title(fn_result.opportunities[j])
                            # C30_Title(fn_result.opportunities[k])
        /\ Len(fn_result.opportunities) = Cardinality(C30_Firsts)
        /\ Len(fn_result.opportunities) + Len(fn_result.duplicates)
               = Len(fn_args.opportunities)
        /\ \A k \in DOMAIN fn_result.opportunities :
               /\ DOMAIN fn_args.opportunities[C30_First(k)]
                      \subseteq DOMAIN fn_result.opportunities[k]
               /\ \A key \in DOMAIN fn_result.opportunities[k] :
                      \/ /\ key \in DOMAIN fn_args.opportunities[C30_First(k)]
                         /\ fn_result.opportunities[k][key]
                                = fn_args.opportunities[C30_First(k)][key]
                      \/ /\ \/ key \notin DOMAIN fn_args.opportunities[C30_First(k)]
                            \/ ~Truthy(fn_args.opportunities[C30_First(k)][key])
                         /\ \E m \in C30_Later(k) :
                                /\ key \in DOMAIN fn_args.opportunities[m]
                                /\ fn_result.opportunities[k][key]
                                       = fn_args.opportunities[m][key]

\* three spellings of one title from three platforms: one record is left,
\* the first, with its empty location and its missing fee filled in
C30_Witness ==
    /\ C30_Ran
    /\ Len(fn_args.opportunities) = 3
    /\ Len(fn_result.opportunities) = 1
    /\ Len(fn_result.duplicates) = 2
    /\ ~Truthy(fn_args.opportunities[1].location)
    /\ Truthy(fn_result.opportunities[1].location)
    /\ "fee" \notin DOMAIN fn_args.opportunities[1]
    /\ "fee" \in DOMAIN fn_result.opportunities[1]
    /\ fn_result.opportunities[1].source_platform = fn_args.opportunities[1].source_platform
    /\ fn_args.opportunities[2].source_platform # fn_args.opportunities[1].source_platform

====
